---- MODULE Spec2Model ----
(***************************************************************************)
(* Model of the kfz-backend REST service: the authentication router with   *)
(* its login guard (routes/auth.js), the inquiry router, the in-memory     *)
(* vehicle router (routes/vehicles.js) and the SQLite listing query        *)
(* getVehiclesPaginated (data/vehicles.js).                                *)
(*                                                                         *)
(* Text is modelled as a sequence of one-character strings, so that        *)
(* toLowerCase, the e-mail regular expression, parseInt/parseFloat and     *)
(* SQL LIKE are computed character by character.  Time is Date.now() in    *)
(* milliseconds and is assumed monotonic.  Requests are handled one at a   *)
(* time: every action is one whole handler.                                *)
(***************************************************************************)
EXTENDS Integers, Sequences, FiniteSets, TLC

VARIABLES
    users,          \* table users, rows in insertion order
    loginAttempts,  \* Map loginAttempts of routes/auth.js: key -> {count, lastAttempt}
    now,            \* Date.now()
    last,           \* the request handled last and its response
    streak,         \* history: per key, the run of consecutive credential failures
    dbVehicles,     \* table vehicles, rows in rowid order
    inquiries,      \* table inquiries, rows in insertion order
    vehicles,       \* array vehicles of routes/vehicles.js
    query,          \* options handed to getVehiclesPaginated and its result
    pending         \* requests suspended at an await of bcrypt, in arrival order

vars == <<users, loginAttempts, now, last, streak, dbVehicles, inquiries, vehicles, query,
          pending>>

-----------------------------------------------------------------------------
(* Bounds of the model *)

MaxTime == 120000        \* the clock stops advancing here (two lockout windows)
MaxInquiries == 2        \* inquiries the table holds at most

-----------------------------------------------------------------------------
(* Text helpers *)

LowerChar(c) ==
    CASE c = "A" -> "a" [] c = "B" -> "b" [] c = "C" -> "c" [] c = "D" -> "d"
      [] c = "E" -> "e" [] c = "F" -> "f" [] c = "G" -> "g" [] c = "H" -> "h"
      [] c = "I" -> "i" [] c = "J" -> "j" [] c = "K" -> "k" [] c = "L" -> "l"
      [] c = "M" -> "m" [] c = "N" -> "n" [] c = "O" -> "o" [] c = "P" -> "p"
      [] c = "Q" -> "q" [] c = "R" -> "r" [] c = "S" -> "s" [] c = "T" -> "t"
      [] c = "U" -> "u" [] c = "V" -> "v" [] c = "W" -> "w" [] c = "X" -> "x"
      [] c = "Y" -> "y" [] c = "Z" -> "z"
      [] OTHER -> c

toLowerCase(s) == [i \in 1..Len(s) |-> LowerChar(s[i])]

\* A request field: absent (undefined) or a string.
Undef == [def |-> FALSE, s |-> <<>>]
Str(s) == [def |-> TRUE, s |-> s]
\* JavaScript truthiness of a string-or-undefined value
Falsy(f) == ~f.def \/ f.s = <<>>

Rep(c, n) == [i \in 1..n |-> c]

-----------------------------------------------------------------------------
(* routes/auth.js: constants *)

JWT_SECRET == "kfz-handelsplattform-secret-key-2025"
JWT_EXPIRES_IN == 86400          \* '24h' in seconds
MAX_LOGIN_ATTEMPTS == 5
LOCKOUT_TIME == 60 * 1000

\* Math.ceil(a / b) for b > 0
Ceil(a, b) == -((-a) \div b)
\* Math.floor(ms / 1000): the clock jsonwebtoken uses
Seconds(ms) == ms \div 1000

-----------------------------------------------------------------------------
(* data/users.js *)

NoUser == [id |-> -1, email |-> <<>>, password |-> [alg |-> "none", of |-> <<>>],
           name |-> <<>>, role |-> "none", createdAt |-> -1]

\* mutant: the lookup compares the stored email with the email as typed
findUserByEmail_AsTyped(us, email) ==
    LET hits == {i \in 1..Len(us) : us[i].email = email}
    IN IF hits = {} THEN NoUser
       ELSE us[CHOOSE i \in hits : \A j \in hits : i <= j]

\* SELECT * FROM users WHERE LOWER(email) = LOWER(?), first row or undefined
findUserByEmailIn(us, email) ==
    LET key == toLowerCase(toLowerCase(email))
        hits == {i \in 1..Len(us) : toLowerCase(us[i].email) = key}
    IN IF hits = {} THEN NoUser
       ELSE us[CHOOSE i \in hits : \A j \in hits : i <= j]

findUserByIdIn(us, id) ==
    LET hits == {i \in 1..Len(us) : us[i].id = id}
    IN IF hits = {} THEN NoUser
       ELSE us[CHOOSE i \in hits : \A j \in hits : i <= j]

\* INSERT INTO users: id is the PRIMARY KEY, email is UNIQUE (binary collation).
\* TRUE when the insert raises a constraint error.
insertUserThrows(us, user) ==
    \E i \in 1..Len(us) : us[i].id = user.id \/ us[i].email = user.email

addUserTo(us, user) == Append(us, user)

-----------------------------------------------------------------------------
(* bcryptjs, as far as the handlers depend on it: a hash is not the password,*)
(* and compare accepts exactly the password the hash was made from.         *)

bcryptHash(password) == [alg |-> "bcrypt", of |-> password]
bcryptCompare(password, hash) == hash.alg = "bcrypt" /\ hash.of = password

-----------------------------------------------------------------------------
(* routes/auth.js: helpers *)

\* /^[^\s@]+@[^\s@]+\.[^\s@]+$/
isValidEmail(s) ==
    \E i \in 1..Len(s) : \E j \in 1..Len(s) :
        /\ 1 < i /\ s[i] = "@"
        /\ i + 1 < j /\ j < Len(s) /\ s[j] = "."
        /\ \A k \in 1..Len(s) : k # i => s[k] \notin {"@", " "}

\* isValidPassword that settles for seven characters
isValidPassword_Seven(s) == s # <<>> /\ Len(s) >= 7

isValidPassword(s) == s # <<>> /\ Len(s) >= 8

NoAttempts == [count |-> 0, lastAttempt |-> 0]

\* mutant: the lockout starts one failure late (> for >=)
checkRateLimit_OneLate(la, email, t) ==
    IF email \notin DOMAIN la
    THEN [allowed |-> TRUE, waitTime |-> 0, la |-> la]
    ELSE LET attempts == la[email] IN
         IF attempts.count > MAX_LOGIN_ATTEMPTS /\ t - attempts.lastAttempt < LOCKOUT_TIME
         THEN [allowed |-> FALSE,
               waitTime |-> Ceil(LOCKOUT_TIME - (t - attempts.lastAttempt), 1000),
               la |-> la]
         ELSE IF t - attempts.lastAttempt >= LOCKOUT_TIME
         THEN [allowed |-> TRUE, waitTime |-> 0,
               la |-> [k \in DOMAIN la \ {email} |-> la[k]]]
         ELSE [allowed |-> TRUE, waitTime |-> 0, la |-> la]

\* checkRateLimit that stamps the record when it rejects an attempt
checkRateLimit_ExtendsLock(la, email, t) ==
    IF email \notin DOMAIN la
    THEN [allowed |-> TRUE, waitTime |-> 0, la |-> la]
    ELSE LET attempts == la[email] IN
         IF attempts.count >= MAX_LOGIN_ATTEMPTS /\ t - attempts.lastAttempt < LOCKOUT_TIME
         THEN [allowed |-> FALSE,
               waitTime |-> Ceil(LOCKOUT_TIME - (t - attempts.lastAttempt), 1000),
               la |-> [la EXCEPT ![email].lastAttempt = t]]
         ELSE IF t - attempts.lastAttempt >= LOCKOUT_TIME
         THEN [allowed |-> TRUE, waitTime |-> 0,
               la |-> [k \in DOMAIN la \ {email} |-> la[k]]]
         ELSE [allowed |-> TRUE, waitTime |-> 0, la |-> la]

\* checkRateLimit that never drops a record
checkRateLimit_NeverClears(la, email, t) ==
    IF email \notin DOMAIN la
    THEN [allowed |-> TRUE, waitTime |-> 0, la |-> la]
    ELSE LET attempts == la[email] IN
         IF attempts.count >= MAX_LOGIN_ATTEMPTS /\ t - attempts.lastAttempt < LOCKOUT_TIME
         THEN [allowed |-> FALSE,
               waitTime |-> Ceil(LOCKOUT_TIME - (t - attempts.lastAttempt), 1000),
               la |-> la]
         ELSE [allowed |-> TRUE, waitTime |-> 0, la |-> la]

\* checkRateLimit(email): the verdict and the map it leaves behind
checkRateLimit(la, email, t) ==
    IF email \notin DOMAIN la
    THEN [allowed |-> TRUE, waitTime |-> 0, la |-> la]
    ELSE LET attempts == la[email] IN
         IF attempts.count >= MAX_LOGIN_ATTEMPTS /\ t - attempts.lastAttempt < LOCKOUT_TIME
         THEN [allowed |-> FALSE,
               waitTime |-> Ceil(LOCKOUT_TIME - (t - attempts.lastAttempt), 1000),
               la |-> la]
         ELSE IF t - attempts.lastAttempt >= LOCKOUT_TIME
         THEN [allowed |-> TRUE, waitTime |-> 0,
               la |-> [k \in DOMAIN la \ {email} |-> la[k]]]
         ELSE [allowed |-> TRUE, waitTime |-> 0, la |-> la]

\* recordLoginAttempt that leaves the record in place on success
recordLoginAttempt_KeepsOnSuccess(la, email, success, t) ==
    IF success
    THEN la
    ELSE LET attempts == IF email \in DOMAIN la THEN la[email] ELSE NoAttempts
         IN [k \in DOMAIN la \cup {email} |->
                IF k = email
                THEN [count |-> attempts.count + 1, lastAttempt |-> t]
                ELSE la[k]]

\* recordLoginAttempt(email, success)
recordLoginAttempt(la, email, success, t) ==
    IF success
    THEN [k \in DOMAIN la \ {email} |-> la[k]]
    ELSE LET attempts == IF email \in DOMAIN la THEN la[email] ELSE NoAttempts
         IN [k \in DOMAIN la \cup {email} |->
                IF k = email
                THEN [count |-> attempts.count + 1, lastAttempt |-> t]
                ELSE la[k]]

\* jwt.sign({userId, email, role}, secret, {expiresIn})
jwtSign(user, secret, t) ==
    [wellFormed |-> TRUE, secret |-> secret,
     userId |-> user.id, email |-> user.email, role |-> user.role,
     exp |-> Seconds(t) + JWT_EXPIRES_IN]

NoToken == [wellFormed |-> FALSE, secret |-> "", userId |-> -1, email |-> <<>>,
            role |-> "none", exp |-> 0]

PublicView(user) == [id |-> user.id, email |-> user.email, name |-> user.name,
                     role |-> user.role]

Response(status, error, message) ==
    [status |-> status, error |-> error, message |-> message,
     waitTime |-> 0, user |-> PublicView(NoUser), token |-> NoToken]

-----------------------------------------------------------------------------
(* POST /api/auth/register *)

\* the handler from the return of await bcrypt.hash on: the user is made and
\* inserted; an error of the insert is caught and answered 500
registerAfterHash(us, t, email, password, name) ==
    LET user == [id |-> t, email |-> toLowerCase(email.s),
                 password |-> bcryptHash(password.s),
                 name |-> IF Falsy(name) THEN <<>> ELSE name.s,
                 role |-> "user", createdAt |-> t]
    IN IF insertUserThrows(us, user)
       THEN [res |-> Response(500, "Serverfehler",
                              "Ein unerwarteter Fehler ist aufgetreten"),
             users |-> us]
       ELSE [res |-> [Response(201, "", "Registrierung erfolgreich")
                        EXCEPT !.user = PublicView(user),
                               !.token = jwtSign(user, JWT_SECRET, t)],
             users |-> addUserTo(us, user)]

registerHandler(us, t, email, password, name) ==
    IF Falsy(email) \/ Falsy(password)
    THEN [res |-> Response(400, "Validierungsfehler", "Email und Passwort sind erforderlich"),
          users |-> us]
    ELSE IF ~isValidEmail(email.s)
    THEN [res |-> Response(400, "Validierungsfehler", "Ungueltiges Email-Format"),
          users |-> us]
    ELSE IF ~isValidPassword(password.s)
    THEN [res |-> Response(400, "Validierungsfehler",
                           "Passwort muss mindestens 8 Zeichen lang sein"),
          users |-> us]
    ELSE IF findUserByEmailIn(us, email.s) # NoUser
    THEN [res |-> Response(409, "Registrierung fehlgeschlagen",
                           "Ein Benutzer mit dieser Email existiert bereits"),
          users |-> us]
    ELSE registerAfterHash(us, t, email, password, name)

-----------------------------------------------------------------------------
(* POST /api/auth/login *)

\* mutant: an unknown email is answered with its own message
loginNoUser_Reveals(la, key, t) ==
    [res |-> Response(401, "Login fehlgeschlagen", "Benutzer nicht gefunden"),
     la |-> recordLoginAttempt(la, key, FALSE, t),
     looked |-> TRUE, compared |-> FALSE]

\* the branch taken when findUserByEmail finds nothing
loginNoUser(la, key, t) ==
    [res |-> Response(401, "Login fehlgeschlagen", "Email oder Passwort ist falsch"),
     la |-> recordLoginAttempt(la, key, FALSE, t),
     looked |-> TRUE, compared |-> FALSE]

\* the handler from the return of await bcrypt.compare on
loginAfterCompare(la, key, t, password, user) ==
    IF ~bcryptCompare(password.s, user.password)
    THEN [res |-> Response(401, "Login fehlgeschlagen", "Email oder Passwort ist falsch"),
          la |-> recordLoginAttempt(la, key, FALSE, t),
          looked |-> TRUE, compared |-> TRUE]
    ELSE [res |-> [Response(200, "", "Login erfolgreich")
                     EXCEPT !.user = PublicView(user),
                            !.token = jwtSign(user, JWT_SECRET, t)],
          la |-> recordLoginAttempt(la, key, TRUE, t),
          looked |-> TRUE, compared |-> TRUE]

loginHandler(us, la, t, email, password) ==
    IF Falsy(email) \/ Falsy(password)
    THEN [res |-> Response(400, "Validierungsfehler", "Email und Passwort sind erforderlich"),
          la |-> la, looked |-> FALSE, compared |-> FALSE]
    ELSE
    LET key == toLowerCase(email.s)
        rateLimit == checkRateLimit(la, key, t)
        user == findUserByEmailIn(us, email.s)
    IN
    IF ~rateLimit.allowed
    THEN [res |-> [Response(429, "Zu viele Anfragen", "Zu viele Versuche")
                     EXCEPT !.waitTime = rateLimit.waitTime],
          la |-> rateLimit.la, looked |-> FALSE, compared |-> FALSE]
    ELSE IF user = NoUser
    THEN loginNoUser(rateLimit.la, key, t)
    ELSE loginAfterCompare(rateLimit.la, key, t, password, user)

-----------------------------------------------------------------------------
(* Inputs of the authentication requests *)

EmailA == <<"a", "@", "b", ".", "c">>
EmailAUp == <<"A", "@", "B", ".", "c">>
EmailX == <<"x", "@", "m", ".", "w">>
EmailNoAt == <<"a", "b", ".", "c">>
EmailNoDot == <<"a", "@", "b">>
EmailTwoAts == <<"a", "@", "@", "b", ".", "c">>
EmailNoTld == <<"a", "@", "b", ".">>

PwGood == Rep("p", 8)
PwOther == Rep("q", 8)
PwShort == Rep("p", 7)

Keys == {toLowerCase(EmailA), toLowerCase(EmailX)}

\* time advances in these steps: just inside and exactly one lockout window
TickSteps == {LOCKOUT_TIME - 1, LOCKOUT_TIME}

-----------------------------------------------------------------------------
(* Initial state: empty tables (the ':memory:' database), empty Map, the    *)
(* four vehicles routes/vehicles.js starts with.                            *)

NoStreak == [n |-> 0, t |-> 0, times |-> <<>>, cleared |-> FALSE, rejected |-> FALSE]

Idle == [op |-> "none"]

\* one of the vehicles routes/vehicles.js starts with
SeedVehicle(id, marke, modell, preis, baujahr, kilometerstand, kraftstoff, text, bild) ==
    [id |-> id, marke |-> marke, modell |-> modell,
     preis |-> [nan |-> FALSE, n |-> preis, d |-> 1],
     baujahr |-> [nan |-> FALSE, n |-> baujahr, d |-> 1],
     kilometerstand |-> [nan |-> FALSE, n |-> kilometerstand, d |-> 1],
     kraftstoff |-> kraftstoff, beschreibung |-> text, bilder |-> <<bild>>,
     createdAt |-> 0, updatedAt |-> 0]

benzin == <<"b", "e", "n", "z", "i", "n">>
diesel == <<"d", "i", "e", "s", "e", "l">>
elektro == <<"e", "l", "e", "k", "t", "r", "o">>
hybrid == <<"h", "y", "b", "r", "i", "d">>

InitialVehicles ==
    << SeedVehicle("1", <<"M", "e", "r", "c", "e", "d", "e", "s", "-", "B", "e", "n", "z">>,
                   <<"C", "-", "K", "l", "a", "s", "s", "e", " ", "A", "M", "G">>, 68000, 2022, 15000, benzin,
                   "Sportlicher AMG mit Premium-Ausstattung", "/images/mercedes-c-amg.jpg"),
       SeedVehicle("2", <<"B", "M", "W">>, <<"M", "4", " ", "C", "o", "m", "p", "e", "t", "i", "t", "i", "o", "n">>,
                   89900, 2022, 15000, benzin,
                   "BMW M4 Competition mit M Driver Package", "/images/bmw-m4.jpg"),
       SeedVehicle("3", <<"A", "u", "d", "i">>, <<"R", "S", " ", "e", "-", "t", "r", "o", "n", " ", "G", "T">>,
                   142500, 2023, 8000, elektro,
                   "Vollelektrischer Sportwagen mit 646 PS", "/images/audi-etron.jpg"),
       SeedVehicle("4", <<"P", "o", "r", "s", "c", "h", "e">>, <<"9", "1", "1", " ", "G", "T", "3">>,
                   189000, 2022, 12000, benzin,
                   "Porsche 911 GT3 mit Clubsport-Paket", "/images/porsche-gt3.jpg") >>

NoQuery == [op |-> "none"]

Init ==
    /\ users = <<>>
    /\ loginAttempts = <<>>
    /\ now = 0
    /\ last = Idle
    /\ streak = [k \in Keys |-> NoStreak]
    /\ dbVehicles = <<>>
    /\ inquiries = <<>>
    /\ vehicles = InitialVehicles
    /\ query = NoQuery
    /\ pending = <<>>

\* Date.now() moves on between two requests
Tick ==
    /\ \E d \in TickSteps : now + d <= MaxTime /\ now' = now + d
    /\ last' = Idle
    /\ UNCHANGED <<pending, users, loginAttempts, streak, dbVehicles, inquiries, vehicles, query>>

-----------------------------------------------------------------------------
(* The requests as actions *)

RegisterWith(emails, passwords) ==
    \E email \in emails, password \in passwords :
        LET r == registerHandler(users, now, email, password, Undef) IN
        /\ users' = r.users
        /\ last' = [op |-> "register", email |-> email, password |-> password,
                    res |-> r.res]
        /\ UNCHANGED <<pending, loginAttempts, now, streak, dbVehicles, inquiries, vehicles, query>>

\* the last MAX_LOGIN_ATTEMPTS entries of a sequence of times
LastFive(times) ==
    IF Len(times) <= MAX_LOGIN_ATTEMPTS THEN times
    ELSE SubSeq(times, Len(times) - MAX_LOGIN_ATTEMPTS + 1, Len(times))

\* history: the run of consecutive credential failures (401) for a key, each
\* less than LOCKOUT_TIME after the one before, ended by a successful login
streakAfter(st, key, status, t) ==
    IF key \notin DOMAIN st THEN st
    ELSE IF status = 401
    THEN [st EXCEPT ![key].n = IF st[key].n > 0 /\ t - st[key].t < LOCKOUT_TIME
                                THEN st[key].n + 1 ELSE 1,
                    ![key].t = t]
    ELSE IF status = 200 THEN [st EXCEPT ![key] = NoStreak]
    ELSE st

\* history: the times of the last five credential failures for a key since
\* its last successful login, whether that login found failures on record,
\* and whether a login for the key has been rejected as locked since
timesAfter(st, key, status, t, la) ==
    IF key \in DOMAIN st /\ status = 401
    THEN [st EXCEPT ![key].times = LastFive(Append(st[key].times, t))]
    ELSE IF key \in DOMAIN st /\ status = 200
    THEN [st EXCEPT ![key].cleared = key \in DOMAIN la]
    ELSE IF key \in DOMAIN st /\ status = 429
    THEN [st EXCEPT ![key].rejected = TRUE]
    ELSE st

LoginWith(emails, passwords) ==
    \E email \in emails, password \in passwords :
        LET r == loginHandler(users, loginAttempts, now, email, password)
            key == IF email.def THEN toLowerCase(email.s) ELSE <<>>
        IN
        /\ loginAttempts' = r.la
        /\ streak' = streakAfter(streak, key, r.res.status, now)
        /\ last' = [op |-> "login", email |-> email, password |-> password,
                    key |-> key, res |-> r.res,
                    looked |-> r.looked, compared |-> r.compared]
        /\ UNCHANGED <<pending, users, now, dbVehicles, inquiries, vehicles, query>>

Login ==
    \/ LoginWith({Str(EmailA), Str(EmailAUp)}, {Str(PwGood), Str(PwOther)})
    \/ LoginWith({Undef, Str(EmailX)}, {Str(PwOther)})
    \/ LoginWith({Str(EmailX)}, {Undef})

RegisterOne == RegisterWith({Str(EmailA)}, {Str(PwGood)})

NextLogin == Login \/ RegisterOne \/ Tick

SpecLogin == Init /\ [][NextLogin]_vars

\* logins for one email, with the times of its failures kept
GuardLogin ==
    \E email \in {Str(EmailA), Str(EmailAUp)}, password \in {Str(PwGood), Str(PwOther)} :
        LET r == loginHandler(users, loginAttempts, now, email, password)
            key == toLowerCase(email.s)
        IN
        /\ loginAttempts' = r.la
        /\ streak' = timesAfter(streakAfter(streak, key, r.res.status, now),
                                key, r.res.status, now, loginAttempts)
        /\ last' = [op |-> "login", email |-> email, password |-> password,
                    key |-> key, res |-> r.res,
                    looked |-> r.looked, compared |-> r.compared]
        /\ UNCHANGED <<pending, users, now, dbVehicles, inquiries, vehicles, query>>

NextGuard == GuardLogin \/ RegisterOne \/ Tick

SpecGuard == Init /\ [][NextGuard]_vars

Register == RegisterWith({Undef, Str(<<>>), Str(EmailA), Str(EmailAUp), Str(EmailX),
                          Str(EmailNoAt), Str(EmailNoDot), Str(EmailTwoAts),
                          Str(EmailNoTld)},
                         {Undef, Str(PwGood), Str(PwShort)})

NextRegister == Register \/ Tick

SpecRegister == Init /\ [][NextRegister]_vars

-----------------------------------------------------------------------------
(* Login guard: lockout *)

Supplied(req) == ~Falsy(req.email) /\ ~Falsy(req.password)

GoodCredentials(req) ==
    LET user == findUserByEmailIn(users, req.email.s)
    IN user # NoUser /\ user.password.of = req.password.s

\* five consecutive failures on record for the key, the fifth less than a
\* lockout window ago
FiveRecentFailures(key) ==
    streak[key].n >= MAX_LOGIN_ATTEMPTS /\ now - streak[key].t < LOCKOUT_TIME

\* C1: after 5 failed logins for an email (unknown email or wrong password),
\* none followed by a success and each less than 60 s after the one before, a
\* login made less than 60 s after the 5th is answered 429 with a wait of 1..60
\* seconds whatever password it supplies; a login with bad credentials made
\* before the 5th failure is on record is answered 401, not 429.
C1_LockoutAfterFive ==
    [][ (last'.op = "login" /\ Supplied(last')) =>
          IF FiveRecentFailures(last'.key)
          THEN /\ last'.res.status = 429
               /\ last'.res.waitTime >= 1
               /\ last'.res.waitTime <= 60
               /\ loginAttempts' = loginAttempts
          ELSE ~GoodCredentials(last') => last'.res.status = 401 ]_vars

\* the 6th attempt carried the right password of a registered user and was
\* still turned away, with one second left to wait
C1_Witness ==
       /\ last.op = "login"
       /\ last.res.status = 429
       /\ last.res.waitTime = 1
       /\ GoodCredentials(last)
       /\ streak[last.key].n = 5

-----------------------------------------------------------------------------
(* Login guard: reset on success *)

\* fewer than five credential failures for the key since its last successful
\* login (or since the start)
FewerThanFiveSinceSuccess(key) == Len(streak[key].times) < MAX_LOGIN_ATTEMPTS

\* C16: a successful login removes the email's LoginAttemptRecord, so its
\* failure count starts again at zero: while fewer than 5 failures have
\* happened since the last successful login, a login is never answered 429 and
\* one with bad credentials is answered 401; the email is locked only after 5
\* new failures.
C16_SuccessResets ==
    [][ (last'.op = "login" /\ Supplied(last')) =>
          /\ last'.res.status = 200 => last'.key \notin DOMAIN loginAttempts'
          /\ FewerThanFiveSinceSuccess(last'.key) =>
                /\ last'.res.status # 429
                /\ ~GoodCredentials(last') => last'.res.status = 401
                /\ last'.res.status = 401 =>
                      loginAttempts'[last'.key].count <= Len(streak[last'.key].times) + 1 ]_vars

\* the 4th failure after a successful login that had cleared earlier failures
\* was answered 401
C16_Witness ==
    /\ last.op = "login"
    /\ last.res.status = 401
    /\ streak[last.key].cleared
    /\ Len(streak[last.key].times) = 4
    /\ loginAttempts[last.key].count = 4

-----------------------------------------------------------------------------
(* Login guard: the lockout window *)

\* C17: an email is locked only by 5 failed attempts that fall within one
\* 60-second window: whenever a login is rejected as locked (429), the 5 most
\* recent failures for the email lie within 60 seconds of one another; 5
\* failures whose first and fifth are more than 60 seconds apart do not lock.
C17_LockNeedsFiveInWindow ==
    (last.op = "login" /\ last.res.status = 429) =>
        LET times == streak[last.key].times
        IN /\ Len(times) = MAX_LOGIN_ATTEMPTS
           /\ times[MAX_LOGIN_ATTEMPTS] - times[1] <= LOCKOUT_TIME

\* a login was rejected as locked although the first and the fifth of the
\* five failures before it lie almost two minutes apart
C17_Witness ==
    /\ last.op = "login"
    /\ last.res.status = 429
    /\ Len(streak[last.key].times) = 5
    /\ streak[last.key].times[5] - streak[last.key].times[1] > LOCKOUT_TIME

-----------------------------------------------------------------------------
(* Login guard: attempts during the lockout, and its end *)

\* C18: while an email is locked, every login for it is rejected (429) before
\* the Credential Store is looked at or a password compared, and the rejection
\* leaves the LoginAttemptRecord (count and last-attempt time) and the users
\* as they were; no rejection consults the store or extends the lockout.
C18_LockedRejectsUntouched ==
    [][ (last'.op = "login" /\ Supplied(last')
           /\ (FiveRecentFailures(last'.key) \/ last'.res.status = 429)) =>
          /\ last'.res.status = 429
          /\ ~last'.looked /\ ~last'.compared
          /\ loginAttempts' = loginAttempts
          /\ users' = users ]_vars

\* the right password was rejected half-way through the lockout and the
\* record still carries the time of the fifth failure
C18_Witness ==
    /\ last.op = "login"
    /\ last.res.status = 429
    /\ GoodCredentials(last)
    /\ ~last.looked
    /\ loginAttempts[last.key] = [count |-> 5, lastAttempt |-> streak[last.key].t]
    /\ now > streak[last.key].t

\* C19: a locked email returns to Clear: a login made 60 seconds or more
\* after the 5th failure is admitted to credential checking, the old record is
\* removed (a failure on that login counts as 1, a success leaves no record),
\* and no login is rejected as locked 60 seconds or more after the last
\* failure, whatever requests came in between.
C19_LockEnds ==
    [][ (last'.op = "login" /\ Supplied(last')) =>
          /\ (streak[last'.key].n >= MAX_LOGIN_ATTEMPTS
                 /\ now - streak[last'.key].t >= LOCKOUT_TIME) =>
                /\ last'.res.status \in {200, 401}
                /\ last'.looked
                /\ last'.res.status = 401 =>
                      loginAttempts'[last'.key] = [count |-> 1, lastAttempt |-> now]
                /\ last'.res.status = 200 => last'.key \notin DOMAIN loginAttempts'
          /\ last'.res.status = 429 => now - streak[last'.key].t < LOCKOUT_TIME ]_vars

\* after a lockout during which logins were rejected, a failed login was
\* answered 401 and counts as the first
C19_Witness ==
    /\ last.op = "login"
    /\ last.res.status = 401
    /\ streak[last.key].rejected
    /\ Len(streak[last.key].times) = 5
    /\ loginAttempts[last.key] = [count |-> 1, lastAttempt |-> now]

-----------------------------------------------------------------------------
(* Registration: e-mail uniqueness *)

SameEmail(a, b) == toLowerCase(a) = toLowerCase(b)

NoTwoUsersShareEmail(us) ==
    \A i \in 1..Len(us) : \A j \in 1..Len(us) :
        i # j => ~SameEmail(us[i].email, us[j].email)

PassesValidation(req) ==
    /\ Supplied(req)
    /\ isValidEmail(req.email.s)
    /\ isValidPassword(req.password.s)

-----------------------------------------------------------------------------
(* Login: unknown email and wrong password look alike *)

\* the count the guard holds for a key at time t: a record whose last failure
\* is a whole lockout window old is dropped by checkRateLimit and counts as none
GuardCount(la, key, t) ==
    IF key \in DOMAIN la /\ t - la[key].lastAttempt < LOCKOUT_TIME
    THEN la[key].count ELSE 0

WithoutEmail(us, key) == SelectSeq(us, LAMBDA u : toLowerCase(u.email) # key)

\* C6: for a login that fails on its credentials, two runs from the same
\* state that differ only in whether the email is in the Credential Store
\* (unknown email against wrong password) give the same status 401 and the
\* same body, and both leave the guard's failure count for the email exactly
\* one higher.
C6_FailureIndistinguishable ==
    \A e \in {EmailA, EmailAUp, EmailX} : \A p \in {PwGood, PwOther} :
        LET key == toLowerCase(e)
            other == IF p = PwGood THEN PwOther ELSE PwGood
            absent == WithoutEmail(users, key)
            present == Append(absent,
                          [id |-> now, email |-> key, password |-> bcryptHash(other),
                           name |-> <<>>, role |-> "user", createdAt |-> now])
            unknown == loginHandler(absent, loginAttempts, now, Str(e), Str(p))
            wrong == loginHandler(present, loginAttempts, now, Str(e), Str(p))
        IN /\ unknown.res = wrong.res
           /\ unknown.la = wrong.la
           /\ unknown.res.status \in {401, 429}
           /\ unknown.res.status = 401 =>
                 /\ wrong.compared /\ ~unknown.compared
                 /\ unknown.la[key].count = GuardCount(loginAttempts, key, now) + 1

\* a wrong password for a registered user was just refused, as the third
\* failure in a row
C6_Witness ==
       /\ last.op = "login"
       /\ last.res.status = 401
       /\ last.compared
       /\ last.key \in DOMAIN loginAttempts
       /\ loginAttempts[last.key].count = 3

-----------------------------------------------------------------------------
(* Numbers as JavaScript and SQLite see them: NaN, or the rational n/d      *)

NaN == [nan |-> TRUE, n |-> 0, d |-> 1]
Num(n, d) == [nan |-> FALSE, n |-> n, d |-> d]
IntNum(n) == Num(n, 1)

\* a <= b on numbers; any comparison with NaN is false
NumLeq(a, b) == ~a.nan /\ ~b.nan /\ a.n * b.d <= b.n * a.d
NumEq(a, b) == ~a.nan /\ ~b.nan /\ a.n * b.d = b.n * a.d

Digits == {"0", "1", "2", "3", "4", "5", "6", "7", "8", "9"}

DigitVal(c) ==
    CASE c = "0" -> 0 [] c = "1" -> 1 [] c = "2" -> 2 [] c = "3" -> 3 [] c = "4" -> 4
      [] c = "5" -> 5 [] c = "6" -> 6 [] c = "7" -> 7 [] c = "8" -> 8 [] c = "9" -> 9

\* index of the first character at or after i that is not white space
RECURSIVE SkipSpace(_, _)
SkipSpace(s, i) == IF i <= Len(s) /\ s[i] = " " THEN SkipSpace(s, i + 1) ELSE i

\* number of digits starting at index i
RECURSIVE DigitRun(_, _)
DigitRun(s, i) == IF i <= Len(s) /\ s[i] \in Digits THEN 1 + DigitRun(s, i + 1) ELSE 0

\* value of the n digits starting at index i
RECURSIVE DigitsValue(_, _, _)
DigitsValue(s, i, n) ==
    IF n = 0 THEN 0 ELSE DigitsValue(s, i, n - 1) * 10 + DigitVal(s[i + n - 1])

RECURSIVE Pow10(_)
Pow10(n) == IF n = 0 THEN 1 ELSE 10 * Pow10(n - 1)

\* parseInt(s): leading white space, a sign, then the longest run of decimal
\* digits; NaN without a digit.  (No input of the model starts with 0x.)
parseInt(s) ==
    LET i0 == SkipSpace(s, 1)
        signed == i0 <= Len(s) /\ s[i0] \in {"+", "-"}
        i1 == IF signed THEN i0 + 1 ELSE i0
        n == DigitRun(s, i1)
        sign == IF signed /\ s[i0] = "-" THEN -1 ELSE 1
    IN IF n = 0 THEN NaN ELSE IntNum(sign * DigitsValue(s, i1, n))

\* parseFloat(s): as parseInt, with an optional fraction.  (No input of the
\* model holds an exponent or the word Infinity.)
parseFloat(s) ==
    LET i0 == SkipSpace(s, 1)
        signed == i0 <= Len(s) /\ s[i0] \in {"+", "-"}
        i1 == IF signed THEN i0 + 1 ELSE i0
        n == DigitRun(s, i1)
        dot == i1 + n <= Len(s) /\ s[i1 + n] = "."
        m == IF dot THEN DigitRun(s, i1 + n + 1) ELSE 0
        sign == IF signed /\ s[i0] = "-" THEN -1 ELSE 1
    IN IF n = 0 /\ m = 0 THEN NaN
       ELSE Num(sign * (DigitsValue(s, i1, n) * Pow10(m) + DigitsValue(s, i1 + n + 1, m)),
                Pow10(m))

\* Math.max(a, b), Math.min(a, b) on integers
Max(a, b) == IF a >= b THEN a ELSE b
Min(a, b) == IF a <= b THEN a ELSE b

\* parseInt(x) without the || dflt
IntOr_NoDefault(f, dflt) == IF f.def THEN parseInt(f.s).n ELSE dflt

\* parseInt(x) || dflt, for an option that is a string or undefined (the
\* destructuring default has already replaced undefined by dflt)
IntOr(f, dflt) ==
    LET v == IF f.def THEN parseInt(f.s) ELSE IntNum(dflt)
    IN IF v.nan \/ v.n = 0 THEN dflt ELSE v.n

-----------------------------------------------------------------------------
(* jsonwebtoken and the Authorization header *)

\* What the texts that occur in headers decode to.  A text that is no JWT
\* (a word, garbage) is not well formed.
Claims(userId, email, role, secret, exp) ==
    [wellFormed |-> TRUE, secret |-> secret, userId |-> userId, email |-> email,
     role |-> role, exp |-> exp]

JwtOf(text) ==
    CASE text = "tokAdmin" -> Claims(900, EmailX, "admin", JWT_SECRET, 3600)
      [] text = "tokUser" -> Claims(0, EmailA, "user", JWT_SECRET, 3600)
      [] text = "tokAdminShort" -> Claims(900, EmailX, "admin", JWT_SECRET, 60)
      [] text = "tokAdminForged" -> Claims(900, EmailX, "admin", "wrong-secret", 3600)
      [] text = "tokAdminZero" -> Claims(0, EmailA, "admin", JWT_SECRET, 3600)
      [] OTHER -> NoToken

\* jwt.verify(token, secret): throws unless the token is well formed, signed
\* with the secret and not expired
jwtVerifies(text, secret, t) ==
    LET c == JwtOf(text)
    IN c.wellFormed /\ c.secret = secret /\ Seconds(t) < c.exp

\* an Authorization header: absent, or its text as split(' ') cuts it
NoHeader == [present |-> FALSE, parts |-> <<>>]
Header(parts) == [present |-> TRUE, parts |-> parts]

\* authHeader && authHeader.split(' ')[1]; "" stands for every falsy value
tokenOf(header) ==
    IF header.present /\ Len(header.parts) >= 2 THEN header.parts[2] ELSE ""

\* authenticateToken with the catch branch answering as the missing-token
\* branch does
authenticateToken_OneStatus(header, t) ==
    LET token == tokenOf(header) IN
    IF token = ""
    THEN [status |-> 401, error |-> "Zugriff verweigert",
          message |-> "Kein Token vorhanden", user |-> NoToken]
    ELSE IF jwtVerifies(token, JWT_SECRET, t)
    THEN [status |-> 0, error |-> "", message |-> "", user |-> JwtOf(token)]
    ELSE [status |-> 401, error |-> "Zugriff verweigert",
          message |-> "Kein Token vorhanden", user |-> NoToken]

\* authenticateToken that trusts a token only as far as the stored user of
\* its userId has the token's role
authenticateToken_ChecksStore(header, t) ==
    LET token == tokenOf(header) IN
    IF token = ""
    THEN [status |-> 401, error |-> "Zugriff verweigert",
          message |-> "Kein Token vorhanden", user |-> NoToken]
    ELSE IF /\ jwtVerifies(token, JWT_SECRET, t)
            /\ findUserByIdIn(users, JwtOf(token).userId).role = JwtOf(token).role
    THEN [status |-> 0, error |-> "", message |-> "", user |-> JwtOf(token)]
    ELSE [status |-> 403, error |-> "Ungueltiger Token",
          message |-> "Token ist abgelaufen oder ungueltig", user |-> NoToken]

\* authenticateToken: status 0 means next() was called with req.user set
authenticateToken(header, t) ==
    LET token == tokenOf(header) IN
    IF token = ""
    THEN [status |-> 401, error |-> "Zugriff verweigert",
          message |-> "Kein Token vorhanden", user |-> NoToken]
    ELSE IF jwtVerifies(token, JWT_SECRET, t)
    THEN [status |-> 0, error |-> "", message |-> "", user |-> JwtOf(token)]
    ELSE [status |-> 403, error |-> "Ungueltiger Token",
          message |-> "Token ist abgelaufen oder ungueltig", user |-> NoToken]

\* POST /api/auth/logout
logoutHandler(header, t) ==
    LET auth == authenticateToken(header, t) IN
    IF auth.status # 0
    THEN [status |-> auth.status, message |-> auth.message, ran |-> FALSE,
          reqUser |-> NoToken]
    ELSE [status |-> 200, message |-> "Logout erfolgreich", ran |-> TRUE,
          reqUser |-> auth.user]

\* GET /api/auth/me
meHandler(us, header, t) ==
    LET auth == authenticateToken(header, t) IN
    IF auth.status # 0
    THEN [status |-> auth.status, message |-> auth.message, ran |-> FALSE,
          reqUser |-> NoToken]
    ELSE IF findUserByIdIn(us, auth.user.userId) = NoUser
    THEN [status |-> 404, message |-> "Der Benutzer existiert nicht mehr", ran |-> TRUE,
          reqUser |-> auth.user]
    ELSE [status |-> 200, message |-> "", ran |-> TRUE, reqUser |-> auth.user]

-----------------------------------------------------------------------------
(* Requests to the routes behind authenticateToken *)

Headers ==
    { NoHeader, Header(<<"Bearer">>), Header(<<"Bearer", "">>), Header(<<"tokAdmin">>),
      Header(<<"Bearer", "tokAdmin">>), Header(<<"Bearer", "tokUser">>),
      Header(<<"Bearer", "tokAdminShort">>), Header(<<"Bearer", "tokAdminForged">>),
      Header(<<"Bearer", "garbage">>), Header(<<"Basic", "tokUser">>) }

Me ==
    /\ \E header \in Headers :
          last' = [op |-> "me", header |-> header, res |-> meHandler(users, header, now)]
    /\ UNCHANGED <<pending, users, loginAttempts, now, streak, dbVehicles, inquiries, vehicles, query>>

Logout ==
    /\ \E header \in Headers :
          last' = [op |-> "logout", header |-> header, res |-> logoutHandler(header, now)]
    /\ UNCHANGED <<pending, users, loginAttempts, now, streak, dbVehicles, inquiries, vehicles, query>>

NextToken == Me \/ Logout \/ RegisterOne \/ Tick

SpecToken == Init /\ [][NextToken]_vars

\* the request carries nothing where the token is looked for
SuppliesNoToken(header) ==
    \/ ~header.present
    \/ Len(header.parts) < 2
    \/ header.parts[2] = ""

\* the text is a token signed with the server's secret that has not expired
Verifies(text) ==
    /\ JwtOf(text).wellFormed
    /\ JwtOf(text).secret = JWT_SECRET
    /\ Seconds(now) < JwtOf(text).exp

CarriesBearerPrefix(header) ==
    header.present /\ Len(header.parts) >= 1 /\ header.parts[1] = "Bearer"

\* C23: a request whose Authorization header does not carry the Bearer prefix
\* is treated as carrying no token: it is answered 401 and the handler does
\* not run, even when the header holds a token that verifies.
C23_BearerPrefixRequired ==
    (last.op \in {"me", "logout"} /\ ~CarriesBearerPrefix(last.header)) =>
        (last.res.status = 401 /\ ~last.res.ran)

\* the header "Basic <token>" with a token that verifies let the logout
\* handler run as that token's user
C23_Witness ==
    /\ last.op = "logout"
    /\ last.header = Header(<<"Basic", "tokUser">>)
    /\ last.res.status = 200
    /\ last.res.ran
    /\ last.res.reqUser = JwtOf("tokUser")

-----------------------------------------------------------------------------
(* SQLite values of the numeric columns: NULL, or the rational n/d          *)

SqlNull == [null |-> TRUE, n |-> 0, d |-> 1]
SqlNum(n, d) == [null |-> FALSE, n |-> n, d |-> d]

\* binding a JavaScript number to a statement: SQLite stores NaN as NULL
BindNum(x) == IF x.nan THEN SqlNull ELSE SqlNum(x.n, x.d)

\* a <= b in a WHERE clause: the row counts only when the comparison is true,
\* and a comparison with NULL is not
SqlLeq(a, b) == ~a.null /\ ~b.null /\ a.n * b.d <= b.n * a.d

\* a property of a JavaScript object that should hold a number: missing or n/d
Missing == [def |-> FALSE, n |-> 0, d |-> 1]
JsNum(n, d) == [def |-> TRUE, n |-> n, d |-> d]

\* x ?? null, bound to a statement
OrNull(x) == IF x.def THEN SqlNum(x.n, x.d) ELSE SqlNull

\* a text column that may be NULL
TextOrNull(f) == [null |-> ~f.def, s |-> f.s]

\* JSON.stringify of an array of file names, as the text's tokens
RECURSIVE JoinNames(_)
JoinNames(list) ==
    IF list = <<>> THEN <<>>
    ELSE IF Len(list) = 1 THEN <<list[1]>>
    ELSE <<list[1], ",">> \o JoinNames(Tail(list))

JSONstringify(list) == <<"[">> \o JoinNames(list) \o <<"]">>

\* JSON.parse of such a text
JSONparse(text) == [i \in 1..((Len(text) - 1) \div 2) |-> text[2 * i]]

-----------------------------------------------------------------------------
(* data/vehicles.js on the vehicles table.  The table is the sequence of    *)
(* its rows in rowid order.                                                 *)

NoVehicle == [id |-> <<>>, brand |-> <<>>, model |-> <<>>, year |-> SqlNull,
              price |-> SqlNull, mileage |-> SqlNull,
              description |-> TextOrNull(Undef), images |-> <<>>,
              createdAt |-> -1, updatedAt |-> -1]

\* findByIdStmt.get(id), images parsed; NoVehicle stands for undefined
getVehicleById(dbv, id) ==
    LET hits == {i \in 1..Len(dbv) : dbv[i].id = id}
    IN IF hits = {} THEN NoVehicle
       ELSE LET row == dbv[CHOOSE i \in hits : TRUE]
            IN [row EXCEPT !.images = IF row.images # <<>> THEN JSONparse(row.images)
                                       ELSE <<>>]

\* INSERT INTO vehicles raises a constraint error: id is the PRIMARY KEY,
\* brand and model are NOT NULL
insertVehicleThrows(dbv, vehicle) ==
    \/ ~vehicle.brand.def
    \/ ~vehicle.model.def
    \/ \E i \in 1..Len(dbv) : dbv[i].id = vehicle.id

addVehicle(dbv, vehicle, t) ==
    IF insertVehicleThrows(dbv, vehicle)
    THEN [threw |-> TRUE, rows |-> dbv]
    ELSE [threw |-> FALSE,
          rows |-> Append(dbv,
                     [id |-> vehicle.id, brand |-> vehicle.brand.s,
                      model |-> vehicle.model.s, year |-> OrNull(vehicle.year),
                      price |-> OrNull(vehicle.price),
                      mileage |-> OrNull(vehicle.mileage),
                      description |-> TextOrNull(vehicle.description),
                      images |-> JSONstringify(IF vehicle.images.def
                                               THEN vehicle.images.list ELSE <<>>),
                      createdAt |-> t, updatedAt |-> -1])]

-----------------------------------------------------------------------------
(* data/inquiries.js on the inquiries table.  An id is the decimal text of  *)
(* Date.now(); the model writes it as the number.                           *)

\* String.prototype.trim
RECURSIVE TrimLeft(_)
TrimLeft(s) == IF s # <<>> /\ Head(s) = " " THEN TrimLeft(Tail(s)) ELSE s

RECURSIVE TrimRight(_)
TrimRight(s) ==
    IF s # <<>> /\ s[Len(s)] = " " THEN TrimRight(SubSeq(s, 1, Len(s) - 1)) ELSE s

trim(s) == TrimRight(TrimLeft(s))

\* a request field that holds a word of a fixed vocabulary (a status)
NoWord == [def |-> FALSE, s |-> ""]
Word(w) == [def |-> TRUE, s |-> w]
FalsyWord(f) == ~f.def \/ f.s = ""

\* rows in the order a stable sort gives them: before[i][j] tells whether
\* rows[i] sorts before rows[j]; rows that tie keep their order
SortRows(rows, before) ==
    LET n == Len(rows)
        Earlier(i, j) == before[i][j] \/ (~before[j][i] /\ i < j)
        rank(i) == Cardinality({j \in 1..n : j # i /\ Earlier(j, i)})
    IN [k \in 1..n |-> rows[CHOOSE i \in 1..n : rank(i) = k - 1]]

\* LIMIT lim OFFSET off
LimitOffset(rows, lim, off) == SubSeq(rows, off + 1, Min(off + lim, Len(rows)))

NoInquiry == [id |-> -1, vehicleId |-> <<>>, name |-> <<>>, email |-> <<>>,
              phone |-> TextOrNull(Undef), message |-> <<>>, status |-> "none",
              createdAt |-> -1, updatedAt |-> -1]

getInquiryById(inqs, id) ==
    LET hits == {i \in 1..Len(inqs) : inqs[i].id = id}
    IN IF hits = {} THEN NoInquiry ELSE inqs[CHOOSE i \in hits : TRUE]

\* INSERT INTO inquiries raises a constraint error: id is the PRIMARY KEY,
\* vehicleId REFERENCES vehicles(id) with foreign_keys = ON
insertInquiryThrows(inqs, dbv, inquiry) ==
    \/ \E i \in 1..Len(inqs) : inqs[i].id = inquiry.id
    \/ ~\E i \in 1..Len(dbv) : dbv[i].id = inquiry.vehicleId

\* phone || null
PhoneOrNull(phone) == IF phone.null \/ phone.s = <<>> THEN TextOrNull(Undef) ELSE phone

addInquiry(inqs, dbv, inquiry, t) ==
    LET row == [id |-> inquiry.id, vehicleId |-> inquiry.vehicleId,
                name |-> inquiry.name, email |-> inquiry.email,
                phone |-> PhoneOrNull(inquiry.phone), message |-> inquiry.message,
                status |-> "new", createdAt |-> t, updatedAt |-> -1]
    IN IF insertInquiryThrows(inqs, dbv, inquiry)
       THEN [threw |-> TRUE, rows |-> inqs, created |-> NoInquiry]
       ELSE [threw |-> FALSE, rows |-> Append(inqs, row), created |-> row]

\* updates.x ?? existing.x on a numeric column
NumOrExisting(x, cell) == IF x.def THEN SqlNum(x.n, x.d) ELSE cell

\* updateVehicle that writes what the update says into every column
updateVehicle_Overwrites(dbv, id, updates, t) ==
    IF getVehicleById(dbv, id) = NoVehicle
    THEN [found |-> FALSE, rows |-> dbv, vehicle |-> NoVehicle]
    ELSE LET rows == [i \in 1..Len(dbv) |->
                        IF dbv[i].id # id THEN dbv[i]
                        ELSE [dbv[i] EXCEPT
                                !.brand = updates.brand.s,
                                !.model = updates.model.s,
                                !.year = OrNull(updates.year),
                                !.price = OrNull(updates.price),
                                !.mileage = OrNull(updates.mileage),
                                !.description = TextOrNull(updates.description),
                                !.images = JSONstringify(updates.images.list),
                                !.updatedAt = t]]
         IN [found |-> TRUE, rows |-> rows, vehicle |-> getVehicleById(rows, id)]

\* updateVehicle(id, updates): null (found = FALSE) when the id is unknown.
\* A property of updates with def = FALSE is undefined or null; the UPDATE
\* statement sets neither id nor createdAt.
updateVehicle(dbv, id, updates, t) ==
    LET existing == getVehicleById(dbv, id) IN
    IF existing = NoVehicle
    THEN [found |-> FALSE, rows |-> dbv, vehicle |-> NoVehicle]
    ELSE LET rows == [i \in 1..Len(dbv) |->
                        IF dbv[i].id # id THEN dbv[i]
                        ELSE [dbv[i] EXCEPT
                                !.brand = IF updates.brand.def THEN updates.brand.s
                                          ELSE existing.brand,
                                !.model = IF updates.model.def THEN updates.model.s
                                          ELSE existing.model,
                                !.year = NumOrExisting(updates.year, existing.year),
                                !.price = NumOrExisting(updates.price, existing.price),
                                !.mileage = NumOrExisting(updates.mileage, existing.mileage),
                                !.description = IF updates.description.def
                                                THEN TextOrNull(updates.description)
                                                ELSE existing.description,
                                !.images = JSONstringify(IF updates.images.def
                                                         THEN updates.images.list
                                                         ELSE existing.images),
                                !.updatedAt = t]]
         IN [found |-> TRUE, rows |-> rows, vehicle |-> getVehicleById(rows, id)]

\* deleteVehicle on a table that no foreign key guards
deleteVehicle_Unguarded(dbv, inqs, id) ==
    IF getVehicleById(dbv, id) = NoVehicle
    THEN [threw |-> FALSE, deleted |-> FALSE, rows |-> dbv]
    ELSE [threw |-> FALSE, deleted |-> TRUE, rows |-> SelectSeq(dbv, LAMBDA v : v.id # id)]

\* deleteVehicle(id): false when the vehicle is not there; DELETE FROM vehicles
\* raises a constraint error while an inquiry references the vehicle
deleteVehicle(dbv, inqs, id) ==
    IF getVehicleById(dbv, id) = NoVehicle
    THEN [threw |-> FALSE, deleted |-> FALSE, rows |-> dbv]
    ELSE IF \E i \in 1..Len(inqs) : inqs[i].vehicleId = id
    THEN [threw |-> TRUE, deleted |-> FALSE, rows |-> dbv]
    ELSE [threw |-> FALSE, deleted |-> TRUE, rows |-> SelectSeq(dbv, LAMBDA v : v.id # id)]

\* UPDATE inquiries SET status, updatedAt WHERE id; null (NoInquiry) when no
\* row changed
updateInquiryStatus(inqs, id, newStatus, t) ==
    LET rows == [i \in 1..Len(inqs) |->
                    IF inqs[i].id = id
                    THEN [inqs[i] EXCEPT !.status = newStatus, !.updatedAt = t]
                    ELSE inqs[i]]
    IN [rows |-> rows, updated |-> getInquiryById(rows, id)]

deleteInquiry(inqs, id) == SelectSeq(inqs, LAMBDA r : r.id # id)

\* SELECT status, COUNT(*) ... GROUP BY status, over the three known names
countInquiriesByStatus(inqs) ==
    [st \in {"new", "contacted", "closed"} |->
        Cardinality({i \in 1..Len(inqs) : inqs[i].status = st})]

\* the row with the brand and model of the LEFT JOIN
Joined(row, dbv) ==
    LET v == getVehicleById(dbv, row.vehicleId)
    IN [inquiry |-> row, brand |-> TextOrNull(IF v = NoVehicle THEN Undef ELSE Str(v.brand)),
        model |-> TextOrNull(IF v = NoVehicle THEN Undef ELSE Str(v.model))]

getAllInquiries(inqs, dbv, options) ==
    LET safeLimit == Min(Max(1, IntOr(options.limit, 50)), 100)
        safePage == Max(1, IntOr(options.page, 1))
        offset == (safePage - 1) * safeLimit
        selected == IF FalsyWord(options.status) THEN inqs
                    ELSE SelectSeq(inqs, LAMBDA r : r.status = options.status.s)
        sorted == SortRows(selected,
                     [i \in 1..Len(selected) |-> [j \in 1..Len(selected) |->
                         selected[i].createdAt > selected[j].createdAt]])
        page == LimitOffset(sorted, safeLimit, offset)
        total == Len(selected)
    IN [total |-> total, page |-> safePage, limit |-> safeLimit,
        totalPages |-> Ceil(total, safeLimit),
        inquiries |-> [i \in 1..Len(page) |-> Joined(page[i], dbv)]]

-----------------------------------------------------------------------------
(* The inquiry router.  A handler gives the response and the table after it *)

Reply(status, message, body, rows) ==
    [res |-> [status |-> status, message |-> message, body |-> body], rows |-> rows]

validStatuses == {"new", "contacted", "closed"}

\* POST /api/inquiries that measures the message before it is trimmed
inquiriesPost_Untrimmed(inqs, dbv, body, t) ==
    LET e1 == IF Falsy(body.vehicleId) THEN <<"vehicleId ist erforderlich">>
              ELSE IF getVehicleById(dbv, body.vehicleId.s) = NoVehicle
              THEN <<"Fahrzeug nicht gefunden">> ELSE <<>>
        e2 == IF Falsy(body.name) \/ trim(body.name.s) = <<>>
              THEN <<"Name ist erforderlich">> ELSE <<>>
        e3 == IF Falsy(body.email) \/ trim(body.email.s) = <<>>
              THEN <<"Email ist erforderlich">>
              ELSE IF ~isValidEmail(body.email.s)
              THEN <<"Ungueltige Email-Adresse">> ELSE <<>>
        e4 == IF Falsy(body.message) \/ trim(body.message.s) = <<>>
              THEN <<"Nachricht ist erforderlich">>
              ELSE IF Len(body.message.s) < 10
              THEN <<"Nachricht muss mindestens 10 Zeichen lang sein">> ELSE <<>>
        errors == e1 \o e2 \o e3 \o e4
        added == addInquiry(inqs, dbv,
                    [id |-> t, vehicleId |-> body.vehicleId.s,
                     name |-> trim(body.name.s),
                     email |-> toLowerCase(trim(body.email.s)),
                     phone |-> IF Falsy(body.phone) THEN TextOrNull(Undef)
                               ELSE TextOrNull(Str(trim(body.phone.s))),
                     message |-> trim(body.message.s)], t)
    IN IF errors # <<>> THEN Reply(400, "Validierungsfehler", errors, inqs)
       ELSE IF added.threw
       THEN Reply(500, "Anfrage konnte nicht erstellt werden", <<>>, inqs)
       ELSE Reply(201, "", <<added.created>>, added.rows)

\* POST /api/inquiries (public)
inquiriesPost(inqs, dbv, body, t) ==
    LET e1 == IF Falsy(body.vehicleId) THEN <<"vehicleId ist erforderlich">>
              ELSE IF getVehicleById(dbv, body.vehicleId.s) = NoVehicle
              THEN <<"Fahrzeug nicht gefunden">> ELSE <<>>
        e2 == IF Falsy(body.name) \/ trim(body.name.s) = <<>>
              THEN <<"Name ist erforderlich">> ELSE <<>>
        e3 == IF Falsy(body.email) \/ trim(body.email.s) = <<>>
              THEN <<"Email ist erforderlich">>
              ELSE IF ~isValidEmail(body.email.s)
              THEN <<"Ungueltige Email-Adresse">> ELSE <<>>
        e4 == IF Falsy(body.message) \/ trim(body.message.s) = <<>>
              THEN <<"Nachricht ist erforderlich">>
              ELSE IF Len(trim(body.message.s)) < 10
              THEN <<"Nachricht muss mindestens 10 Zeichen lang sein">> ELSE <<>>
        errors == e1 \o e2 \o e3 \o e4
        added == addInquiry(inqs, dbv,
                    [id |-> t, vehicleId |-> body.vehicleId.s,
                     name |-> trim(body.name.s),
                     email |-> toLowerCase(trim(body.email.s)),
                     phone |-> IF Falsy(body.phone) THEN TextOrNull(Undef)
                               ELSE TextOrNull(Str(trim(body.phone.s))),
                     message |-> trim(body.message.s)], t)
    IN IF errors # <<>> THEN Reply(400, "Validierungsfehler", errors, inqs)
       ELSE IF added.threw
       THEN Reply(500, "Anfrage konnte nicht erstellt werden", <<>>, inqs)
       ELSE Reply(201, "", <<added.created>>, added.rows)

\* GET /api/inquiries
inquiriesGet(inqs, dbv, header, options, t) ==
    LET auth == authenticateToken(header, t) IN
    IF auth.status # 0 THEN Reply(auth.status, auth.message, <<>>, inqs)
    ELSE IF auth.user.role # "admin"
    THEN Reply(403, "Nur Admins koennen Anfragen einsehen", <<>>, inqs)
    ELSE Reply(200, "", <<getAllInquiries(inqs, dbv, options)>>, inqs)

\* GET /api/inquiries/stats
inquiriesStats(inqs, header, t) ==
    LET auth == authenticateToken(header, t) IN
    IF auth.status # 0 THEN Reply(auth.status, auth.message, <<>>, inqs)
    ELSE IF auth.user.role # "admin"
    THEN Reply(403, "Nur Admins koennen Statistiken einsehen", <<>>, inqs)
    ELSE Reply(200, "", <<countInquiriesByStatus(inqs)>>, inqs)

\* GET /api/inquiries/:id
inquiriesGetById(inqs, header, id, t) ==
    LET auth == authenticateToken(header, t) IN
    IF auth.status # 0 THEN Reply(auth.status, auth.message, <<>>, inqs)
    ELSE IF auth.user.role # "admin"
    THEN Reply(403, "Nur Admins koennen Anfragen einsehen", <<>>, inqs)
    ELSE IF getInquiryById(inqs, id) = NoInquiry
    THEN Reply(404, "Anfrage nicht gefunden", <<>>, inqs)
    ELSE Reply(200, "", <<getInquiryById(inqs, id)>>, inqs)

\* PUT /api/inquiries/:id that stores whatever status it is sent
inquiriesPut_AnyStatus(inqs, header, id, status, t) ==
    LET auth == authenticateToken(header, t)
        done == updateInquiryStatus(inqs, id, status.s, t)
    IN
    IF auth.status # 0 THEN Reply(auth.status, auth.message, <<>>, inqs)
    ELSE IF auth.user.role # "admin"
    THEN Reply(403, "Nur Admins koennen Anfragen aktualisieren", <<>>, inqs)
    ELSE IF getInquiryById(inqs, id) = NoInquiry
    THEN Reply(404, "Anfrage nicht gefunden", <<>>, inqs)
    ELSE Reply(200, "", <<done.updated>>, done.rows)

\* PUT /api/inquiries/:id with the status validated before the role is looked at
inquiriesPut_ValidatesFirst(inqs, header, id, status, t) ==
    LET auth == authenticateToken(header, t)
        done == updateInquiryStatus(inqs, id, status.s, t)
    IN
    IF auth.status # 0 THEN Reply(auth.status, auth.message, <<>>, inqs)
    ELSE IF FalsyWord(status) \/ status.s \notin validStatuses
    THEN Reply(400, "Status muss einer von new, contacted, closed sein", <<>>, inqs)
    ELSE IF auth.user.role # "admin"
    THEN Reply(403, "Nur Admins koennen Anfragen aktualisieren", <<>>, inqs)
    ELSE IF getInquiryById(inqs, id) = NoInquiry
    THEN Reply(404, "Anfrage nicht gefunden", <<>>, inqs)
    ELSE Reply(200, "", <<done.updated>>, done.rows)

\* PUT /api/inquiries/:id
inquiriesPut(inqs, header, id, status, t) ==
    LET auth == authenticateToken(header, t)
        done == updateInquiryStatus(inqs, id, status.s, t)
    IN
    IF auth.status # 0 THEN Reply(auth.status, auth.message, <<>>, inqs)
    ELSE IF auth.user.role # "admin"
    THEN Reply(403, "Nur Admins koennen Anfragen aktualisieren", <<>>, inqs)
    ELSE IF FalsyWord(status) \/ status.s \notin validStatuses
    THEN Reply(400, "Status muss einer von new, contacted, closed sein", <<>>, inqs)
    ELSE IF getInquiryById(inqs, id) = NoInquiry
    THEN Reply(404, "Anfrage nicht gefunden", <<>>, inqs)
    ELSE Reply(200, "", <<done.updated>>, done.rows)

\* DELETE /api/inquiries/:id
inquiriesDelete(inqs, header, id, t) ==
    LET auth == authenticateToken(header, t) IN
    IF auth.status # 0 THEN Reply(auth.status, auth.message, <<>>, inqs)
    ELSE IF auth.user.role # "admin"
    THEN Reply(403, "Nur Admins koennen Anfragen loeschen", <<>>, inqs)
    ELSE IF getInquiryById(inqs, id) = NoInquiry
    THEN Reply(404, "Anfrage nicht gefunden", <<>>, inqs)
    ELSE Reply(200, "Anfrage erfolgreich geloescht", <<>>, deleteInquiry(inqs, id))

-----------------------------------------------------------------------------
(* Requests to the inquiry router *)

V1 == <<"v", "1">>
V9 == <<"v", "9">>

VehicleBMW ==
    [id |-> V1, brand |-> Str(<<"B", "M", "W">>), model |-> Str(<<"3", "2", "0">>),
     year |-> JsNum(2020, 1), price |-> JsNum(25000, 1), mileage |-> Missing,
     description |-> Undef, images |-> [def |-> TRUE, list |-> <<"a.jpg", "b.jpg">>]]

AddVehicleWith(inputs) ==
    /\ \E vehicle \in inputs :
         LET added == addVehicle(dbVehicles, vehicle, now)
         IN /\ dbVehicles' = added.rows
            /\ last' = [op |-> "addVehicle", id |-> vehicle.id, threw |-> added.threw]
    /\ query' = NoQuery          \* a result obtained before is out of date
    /\ UNCHANGED <<pending, users, loginAttempts, now, streak, inquiries, vehicles>>

AddVehicleBMW == AddVehicleWith({VehicleBMW})

DeleteVehicleBMW ==
    /\ LET gone == deleteVehicle(dbVehicles, inquiries, V1)
       IN /\ dbVehicles' = gone.rows
          /\ last' = [op |-> "deleteVehicle", id |-> V1, threw |-> gone.threw,
                      deleted |-> gone.deleted]
    /\ query' = NoQuery
    /\ UNCHANGED <<pending, users, loginAttempts, now, streak, inquiries, vehicles>>

\* a minute passes between two requests
Minute ==
    /\ now + LOCKOUT_TIME <= MaxTime
    /\ now' = now + LOCKOUT_TIME
    /\ last' = Idle
    /\ UNCHANGED <<pending, users, loginAttempts, streak, dbVehicles, inquiries, vehicles, query>>

InquiryHeaders ==
    { NoHeader, Header(<<"Bearer", "tokAdmin">>), Header(<<"Bearer", "tokUser">>),
      Header(<<"Bearer", "garbage">>) }

\* :id parameters: the first inquiry the clock can stamp, and a text no
\* inquiry has
InquiryIds == {0, 999}

Message10 == Rep("m", 10)

InquiryBodies ==
    { [vehicleId |-> Str(V1), name |-> Str(<<" ", "N", " ">>), email |-> Str(EmailAUp),
       phone |-> Undef, message |-> Str(<<" ">> \o Message10)],
      [vehicleId |-> Str(V9), name |-> Str(<<"N">>), email |-> Str(EmailA),
       phone |-> Undef, message |-> Str(Message10)],
      [vehicleId |-> Undef, name |-> Undef, email |-> Str(EmailNoAt),
       phone |-> Str(<<"1">>), message |-> Str(Rep("m", 9) \o <<" ">>)],
      [vehicleId |-> Str(V1), name |-> Str(<<" ">>), email |-> Str(EmailA),
       phone |-> Undef, message |-> Str(Message10)],
      [vehicleId |-> Str(V1), name |-> Str(<<"N">>), email |-> Str(EmailNoDot),
       phone |-> Undef, message |-> Str(Message10)],
      [vehicleId |-> Str(V1), name |-> Str(<<"N">>), email |-> Str(EmailA),
       phone |-> Undef, message |-> Str(<<" ">> \o Rep("m", 9) \o <<" ">>)] }

InquiryPost ==
    /\ Len(inquiries) < MaxInquiries
    /\ \E body \in InquiryBodies :
         LET r == inquiriesPost(inquiries, dbVehicles, body, now)
         IN /\ inquiries' = r.rows
            /\ last' = [op |-> "inquiries.post", body |-> body, res |-> r.res]
    /\ UNCHANGED <<pending, users, loginAttempts, now, streak, dbVehicles, vehicles, query>>

InquiryGet ==
    /\ \E header \in InquiryHeaders :
       \E options \in { [status |-> NoWord, limit |-> Undef, page |-> Undef],
                        [status |-> Word("new"), limit |-> Str(<<"1">>),
                         page |-> Str(<<"2">>)] } :
         LET r == inquiriesGet(inquiries, dbVehicles, header, options, now)
         IN /\ inquiries' = r.rows
            /\ last' = [op |-> "inquiries.get", header |-> header,
                        options |-> options, res |-> r.res]
    /\ UNCHANGED <<pending, users, loginAttempts, now, streak, dbVehicles, vehicles, query>>

InquiryStats ==
    /\ \E header \in InquiryHeaders :
         LET r == inquiriesStats(inquiries, header, now)
         IN /\ inquiries' = r.rows
            /\ last' = [op |-> "inquiries.stats", header |-> header, res |-> r.res]
    /\ UNCHANGED <<pending, users, loginAttempts, now, streak, dbVehicles, vehicles, query>>

InquiryGetById ==
    /\ \E header \in InquiryHeaders : \E id \in InquiryIds :
         LET r == inquiriesGetById(inquiries, header, id, now)
         IN /\ inquiries' = r.rows
            /\ last' = [op |-> "inquiries.getById", header |-> header, id |-> id,
                        res |-> r.res]
    /\ UNCHANGED <<pending, users, loginAttempts, now, streak, dbVehicles, vehicles, query>>

InquiryPut ==
    /\ \E header \in InquiryHeaders : \E id \in InquiryIds :
       \E status \in {NoWord, Word("bogus"), Word("new"), Word("contacted"),
                       Word("closed")} :
         LET r == inquiriesPut(inquiries, header, id, status, now)
         IN /\ inquiries' = r.rows
            /\ last' = [op |-> "inquiries.put", header |-> header, id |-> id,
                        status |-> status, res |-> r.res]
    /\ UNCHANGED <<pending, users, loginAttempts, now, streak, dbVehicles, vehicles, query>>

InquiryDelete ==
    /\ \E header \in InquiryHeaders : \E id \in InquiryIds :
         LET r == inquiriesDelete(inquiries, header, id, now)
         IN /\ inquiries' = r.rows
            /\ last' = [op |-> "inquiries.delete", header |-> header, id |-> id,
                        res |-> r.res]
    /\ UNCHANGED <<pending, users, loginAttempts, now, streak, dbVehicles, vehicles, query>>

NextInquiry ==
    \/ AddVehicleBMW \/ DeleteVehicleBMW \/ InquiryPost \/ InquiryGet \/ InquiryStats
    \/ InquiryGetById \/ InquiryPut \/ InquiryDelete \/ Minute

SpecInquiry == Init /\ [][NextInquiry]_vars

AdminOps == {"inquiries.get", "inquiries.stats", "inquiries.getById",
             "inquiries.put", "inquiries.delete"}

\* C4: inquiry list, stats, get-by-id, status update and delete are carried
\* out only for a verified token whose role is admin; with a verified token of
\* another role each is answered 403 and leaves the inquiries as they were,
\* whatever the status sent and whether or not the inquiry exists.
C4_InquiryAdminOnly ==
    [][ last'.op \in AdminOps =>
          LET h == last'.header
              verified == ~SuppliesNoToken(h) /\ Verifies(h.parts[2])
              admin == verified /\ JwtOf(h.parts[2]).role = "admin"
          IN /\ (verified /\ ~admin) =>
                    (last'.res.status = 403 /\ inquiries' = inquiries)
             /\ ~admin => (last'.res.status # 200 /\ inquiries' = inquiries) ]_vars

\* a user's token asked to set an unknown inquiry to a status that does not
\* exist and got 403, not 400 or 404
C4_Witness ==
    /\ last.op = "inquiries.put"
    /\ last.header = Header(<<"Bearer", "tokUser">>)
    /\ last.id = 999
    /\ last.status = Word("bogus")
    /\ last.res.status = 403
    /\ Len(inquiries) = 1

\* the request carries a verified token whose role is admin
ByAdmin(h) ==
    ~SuppliesNoToken(h) /\ Verifies(h.parts[2]) /\ JwtOf(h.parts[2]).role = "admin"

\* the status sent is missing or none of new, contacted, closed
BadStatus(st) == FalsyWord(st) \/ st.s \notin {"new", "contacted", "closed"}

StatusesInSet(inqs) ==
    \A i \in 1..Len(inqs) : inqs[i].status \in {"new", "contacted", "closed"}

\* C14 as stated: every stored inquiry has a status in {new, contacted,
\* closed}; an inquiry is created with status new; a status update whose
\* value is missing or outside the set is answered 400 and leaves the
\* inquiries unchanged; an admin update with a value in the set stores
\* exactly that value.
C14_StatusInSet_AsStated ==
    [][ /\ StatusesInSet(inquiries')
        /\ (last'.op = "inquiries.post" /\ last'.res.status = 201) =>
              inquiries'[Len(inquiries')].status = "new"
        /\ (last'.op = "inquiries.put" /\ BadStatus(last'.status)) =>
              (last'.res.status = 400 /\ inquiries' = inquiries)
        /\ (last'.op = "inquiries.put" /\ ~BadStatus(last'.status)
               /\ ByAdmin(last'.header) /\ getInquiryById(inquiries, last'.id) # NoInquiry) =>
              /\ last'.res.status = 200
              /\ getInquiryById(inquiries', last'.id).status = last'.status.s ]_vars

\* C14: every stored inquiry has a status in {new, contacted, closed}; an
\* inquiry is created with status new; a status update whose value is missing
\* or outside the set never succeeds and leaves the inquiries unchanged, and
\* is answered 400 when it comes with a verified admin token (401 or 403
\* otherwise); an admin update of an existing inquiry with a value in the set
\* stores exactly that value, whatever the status was before.
C14_StatusInSet ==
    [][ /\ StatusesInSet(inquiries')
        /\ (last'.op = "inquiries.post" /\ last'.res.status = 201) =>
              inquiries'[Len(inquiries')].status = "new"
        /\ (last'.op = "inquiries.put" /\ BadStatus(last'.status)) =>
              /\ inquiries' = inquiries
              /\ last'.res.status = (IF ByAdmin(last'.header) THEN 400
                                     ELSE IF SuppliesNoToken(last'.header) THEN 401
                                     ELSE 403)
        /\ (last'.op = "inquiries.put" /\ ~BadStatus(last'.status)
               /\ ByAdmin(last'.header) /\ getInquiryById(inquiries, last'.id) # NoInquiry) =>
              /\ last'.res.status = 200
              /\ getInquiryById(inquiries', last'.id).status = last'.status.s
              /\ \A i \in 1..Len(inquiries) :
                    inquiries[i].id # last'.id => inquiries'[i] = inquiries[i] ]_vars

\* an admin set an inquiry that had been updated before back to new
C14_Witness ==
    /\ last.op = "inquiries.put"
    /\ last.header = Header(<<"Bearer", "tokAdmin">>)
    /\ last.status = Word("new")
    /\ last.res.status = 200
    /\ getInquiryById(inquiries, last.id).status = "new"
    /\ getInquiryById(inquiries, last.id).updatedAt > getInquiryById(inquiries, last.id).createdAt

\* the text has the shape local@domain.tld: three parts that are not empty
\* and hold neither white space nor a second @
EmailShaped(s) ==
    \E at \in 1..Len(s) : \E dot \in (at + 1)..Len(s) :
        LET local == SubSeq(s, 1, at - 1)
            domain == SubSeq(s, at + 1, dot - 1)
            tld == SubSeq(s, dot + 1, Len(s))
            Clean(part) == part # <<>> /\ \A k \in 1..Len(part) : part[k] \notin {"@", " "}
        IN s[at] = "@" /\ s[dot] = "." /\ Clean(local) /\ Clean(domain) /\ Clean(tld)

\* the creation request names a stored vehicle and its name, email and
\* message are as required
AcceptableInquiry(b, dbv) ==
    /\ b.vehicleId.def /\ \E i \in 1..Len(dbv) : dbv[i].id = b.vehicleId.s
    /\ b.name.def /\ trim(b.name.s) # <<>>
    /\ b.email.def /\ EmailShaped(b.email.s)
    /\ b.message.def /\ Len(trim(b.message.s)) >= 10

\* C15: an inquiry is inserted only if its vehicleId names a vehicle stored at
\* the time of the request and its name, email and message pass validation;
\* a creation request with a missing or unknown vehicleId, an empty name, a
\* malformed email or a message shorter than 10 characters after trimming is
\* answered 400 and leaves the inquiries unchanged.
C15_InquiryValidated ==
    [][ last'.op = "inquiries.post" =>
          /\ inquiries' # inquiries =>
                /\ AcceptableInquiry(last'.body, dbVehicles)
                /\ Len(inquiries') = Len(inquiries) + 1
                /\ SubSeq(inquiries', 1, Len(inquiries)) = inquiries
                /\ inquiries'[Len(inquiries')].vehicleId = last'.body.vehicleId.s
          /\ ~AcceptableInquiry(last'.body, dbVehicles) =>
                (last'.res.status = 400 /\ inquiries' = inquiries) ]_vars

\* an inquiry that is valid but for its vehicle, which is not stored, was
\* answered 400
C15_Witness ==
    /\ last.op = "inquiries.post"
    /\ last.body.vehicleId = Str(V1)
    /\ last.body.message = Str(<<" ">> \o Message10)
    /\ last.res.status = 400
    /\ dbVehicles = <<>>
    /\ inquiries = <<>>

-----------------------------------------------------------------------------
(* Registration: validation *)

\* the registration request carries an email of the shape local@domain.tld
\* and a password of 8 characters or more
WellFormedRegistration(req) ==
    /\ req.email.def /\ EmailShaped(req.email.s)
    /\ req.password.def /\ Len(req.password.s) >= 8

\* C20: a registration with a missing email or password, an email not of the
\* shape local@domain.tld or a password shorter than 8 characters is answered
\* 400 with no token and leaves the users unchanged; the users change only by
\* a registration that passes all of these, which appends one user with the
\* email in lower case and role user.
C20_RegisterValidated ==
    [][ last'.op = "register" =>
          /\ ~WellFormedRegistration(last') =>
                /\ last'.res.status = 400
                /\ last'.res.token = NoToken
                /\ users' = users
          /\ users' # users =>
                /\ WellFormedRegistration(last')
                /\ last'.res.status = 201
                /\ Len(users') = Len(users) + 1
                /\ SubSeq(users', 1, Len(users)) = users
                /\ users'[Len(users')].email = toLowerCase(last'.email.s)
                /\ users'[Len(users')].role = "user" ]_vars

\* an email typed in capitals was registered and is stored in lower case,
\* next to a user registered before
C20_Witness ==
    /\ last.op = "register"
    /\ last.res.status = 201
    /\ last.res.token # NoToken
    /\ last.email = Str(EmailAUp)
    /\ Len(users) = 2
    /\ users[2].email = EmailA
    /\ users[2].role = "user"

-----------------------------------------------------------------------------
(* JavaScript's Number(x) and its order on strings *)

\* The value of a decimal literal that is the whole of t: it starts at i1
\* (after a sign), has n digits before the dot and m after it.
DecimalValue(t, i1, n, m) ==
    Num((IF t[1] = "-" THEN -1 ELSE 1)
            * (DigitsValue(t, i1, n) * Pow10(m) + DigitsValue(t, i1 + n + 1, m)),
        Pow10(m))

\* t is a number when it has a digit and nothing follows the literal
DecimalOrNaN(t, i1, n, m, dotted) ==
    IF (n = 0 /\ m = 0) \/ (i1 - 1) + n + (IF dotted THEN 1 + m ELSE 0) # Len(t) THEN NaN
    ELSE DecimalValue(t, i1, n, m)

DecimalAfter(t, i1, n) ==
    IF i1 + n <= Len(t) /\ t[i1 + n] = "."
    THEN DecimalOrNaN(t, i1, n, DigitRun(t, i1 + n + 1), TRUE)
    ELSE DecimalOrNaN(t, i1, n, 0, FALSE)

\* Number(s) for a string: white space around is dropped, the empty string is
\* 0, and the whole rest must be a decimal number.  (No input of the model
\* holds an exponent, a radix prefix or the word Infinity.)
NumberOfTrimmed(t) ==
    IF t = <<>> THEN IntNum(0)
    ELSE IF t[1] \in {"+", "-"} THEN DecimalAfter(t, 2, DigitRun(t, 2))
    ELSE DecimalAfter(t, 1, DigitRun(t, 1))

NumberOf(s) == NumberOfTrimmed(trim(s))

\* Number(x) for a field: Number(undefined) is NaN
NumberOfField(f) == IF f.def THEN NumberOf(f.s) ELSE NaN

\* the characters of the model's texts in code-unit order
Ascii ==
    << " ", "%", ",", "-", ".", "/", "0", "1", "2", "3", "4", "5", "6", "7", "8", "9",
       "@", "A", "B", "C", "D", "E", "F", "G", "H", "I", "J", "K", "L", "M", "N", "O",
       "P", "Q", "R", "S", "T", "U", "V", "W", "X", "Y", "Z", "_", "a", "b", "c", "d",
       "e", "f", "g", "h", "i", "j", "k", "l", "m", "n", "o", "p", "q", "r", "s", "t",
       "u", "v", "w", "x", "y", "z" >>

CharCode(c) == CHOOSE i \in 1..Len(Ascii) : Ascii[i] = c

\* a < b on strings: by the first code unit that differs, a prefix first
RECURSIVE TextLess(_, _)
TextLess(a, b) ==
    IF b = <<>> THEN FALSE
    ELSE IF a = <<>> THEN TRUE
    ELSE IF Head(a) = Head(b) THEN TextLess(Tail(a), Tail(b))
    ELSE CharCode(Head(a)) < CharCode(Head(b))

\* s.includes(sub)
Includes(s, sub) ==
    \E i \in 1..(Len(s) - Len(sub) + 1) : SubSeq(s, i, i + Len(sub) - 1) = sub

\* s.split(','), as the set of the pieces
RECURSIVE SplitComma(_, _)
SplitComma(s, piece) ==
    IF s = <<>> THEN {piece}
    ELSE IF Head(s) = "," THEN {piece} \cup SplitComma(Tail(s), <<>>)
    ELSE SplitComma(Tail(s), Append(piece, Head(s)))

-----------------------------------------------------------------------------
(* routes/vehicles.js: the router over the in-memory array `vehicles`       *)

NumLess(a, b) == ~a.nan /\ ~b.nan /\ a.n * b.d < b.n * a.d

\* new Date().getFullYear(): the model's two minutes lie within one year
getFullYear(t) == 2025

validKraftstoffe == {benzin, diesel, elektro, hybrid}

\* validateVehicle(data, isUpdate): the list of error messages
validateVehicle(data, isUpdate, t) ==
    LET preis == NumberOfField(data.preis)
        baujahr == NumberOfField(data.baujahr)
        km == NumberOfField(data.kilometerstand)
        e1 == IF (~isUpdate \/ data.marke.def) /\ (Falsy(data.marke) \/ Len(data.marke.s) < 2)
              THEN <<"Marke muss mindestens 2 Zeichen haben">> ELSE <<>>
        e2 == IF (~isUpdate \/ data.modell.def)
                 /\ (Falsy(data.modell) \/ Len(data.modell.s) < 2)
              THEN <<"Modell muss mindestens 2 Zeichen haben">> ELSE <<>>
        e3 == IF (~isUpdate \/ data.preis.def)
                 /\ (preis.nan \/ NumLess(preis, IntNum(0)) \/ NumLess(IntNum(10000000), preis))
              THEN <<"Preis muss zwischen 0 und 10.000.000 liegen">> ELSE <<>>
        e4 == IF (~isUpdate \/ data.baujahr.def)
                 /\ (baujahr.nan \/ NumLess(baujahr, IntNum(1900))
                     \/ NumLess(IntNum(getFullYear(t) + 1), baujahr))
              THEN <<"Baujahr ungueltig">> ELSE <<>>
        e5 == IF (~isUpdate \/ data.kilometerstand.def)
                 /\ (km.nan \/ NumLess(km, IntNum(0)) \/ NumLess(IntNum(1000000), km))
              THEN <<"Kilometerstand muss zwischen 0 und 1.000.000 liegen">> ELSE <<>>
        e6 == IF (~isUpdate \/ data.kraftstoff.def)
                 /\ (~data.kraftstoff.def
                     \/ toLowerCase(data.kraftstoff.s) \notin validKraftstoffe)
              THEN <<"Kraftstoff muss benzin, diesel, elektro oder hybrid sein">>
              ELSE <<>>
    IN e1 \o e2 \o e3 \o e4 \o e5 \o e6

\* vehicles.findIndex(v => v.id === id); 0 stands for -1
findIndex(vs, id) ==
    IF \E i \in 1..Len(vs) : vs[i].id = id
    THEN CHOOSE i \in 1..Len(vs) : vs[i].id = id /\ \A j \in 1..(i - 1) : vs[j].id # id
    ELSE 0

\* GET /api/vehicles/:id
vehiclesGetById(vs, id) ==
    IF findIndex(vs, id) = 0
    THEN Reply(404, "Fahrzeug nicht gefunden", <<>>, vs)
    ELSE Reply(200, "", <<vs[findIndex(vs, id)]>>, vs)

\* POST /api/vehicles; uuid is what uuidv4() returns
vehiclesPost(vs, body, uuid, t) ==
    LET errors == validateVehicle(body, FALSE, t)
        vehicle == [id |-> uuid, marke |-> body.marke.s, modell |-> body.modell.s,
                    preis |-> NumberOfField(body.preis),
                    baujahr |-> NumberOfField(body.baujahr),
                    kilometerstand |-> NumberOfField(body.kilometerstand),
                    kraftstoff |-> toLowerCase(body.kraftstoff.s),
                    beschreibung |-> IF FalsyWord(body.beschreibung) THEN ""
                                     ELSE body.beschreibung.s,
                    bilder |-> IF body.bilder.def THEN body.bilder.list ELSE <<>>,
                    createdAt |-> t, updatedAt |-> t]
    IN IF errors # <<>> THEN Reply(400, "Validierungsfehler", errors, vs)
       ELSE Reply(201, "", <<vehicle>>, Append(vs, vehicle))

\* PUT /api/vehicles/:id: the stored vehicle with the body spread over it,
\* then id and createdAt put back and the numeric fields converted
vehiclesPut(vs, id, body, t) ==
    LET index == findIndex(vs, id)
        errors == validateVehicle(body, TRUE, t)
        updatedVehicle ==
            [vs[index] EXCEPT
               !.marke = IF body.marke.def THEN body.marke.s ELSE @,
               !.modell = IF body.modell.def THEN body.modell.s ELSE @,
               !.preis = IF body.preis.def THEN NumberOfField(body.preis) ELSE @,
               !.baujahr = IF body.baujahr.def THEN NumberOfField(body.baujahr) ELSE @,
               !.kilometerstand = IF body.kilometerstand.def
                                  THEN NumberOfField(body.kilometerstand) ELSE @,
               !.kraftstoff = IF body.kraftstoff.def THEN toLowerCase(body.kraftstoff.s)
                              ELSE @,
               !.beschreibung = IF body.beschreibung.def THEN body.beschreibung.s ELSE @,
               !.bilder = IF body.bilder.def THEN body.bilder.list ELSE @,
               !.updatedAt = t]
    IN IF index = 0
       THEN Reply(404, "Fahrzeug nicht gefunden", <<>>, vs)
       ELSE IF errors # <<>> THEN Reply(400, "Validierungsfehler", errors, vs)
       ELSE Reply(200, "", <<updatedVehicle>>, [vs EXCEPT ![index] = updatedVehicle])

\* DELETE /api/vehicles/:id
vehiclesDelete(vs, id) ==
    LET index == findIndex(vs, id) IN
    IF index = 0
    THEN Reply(404, "Fahrzeug nicht gefunden", <<>>, vs)
    ELSE Reply(200, "Fahrzeug geloescht", <<vs[index]>>,
               SubSeq(vs, 1, index - 1) \o SubSeq(vs, index + 1, Len(vs)))

-----------------------------------------------------------------------------
(* GET /api/vehicles of routes/vehicles.js *)

NumMaxOf(a, b) == IF NumLess(a, b) THEN b ELSE a
NumMinOf(a, b) == IF NumLess(b, a) THEN b ELSE a

\* x || dflt for a number: NaN and 0 are falsy
NumOr(x, dflt) == IF x.nan \/ x.n = 0 THEN dflt ELSE x

\* the integer an index of Array.prototype.slice is cut to (x >= 0)
Trunc(x) == x.n \div x.d

\* a[sortField] < b[sortField]; a field the records do not have is undefined
\* on both sides and never less.  (No input of the model sorts by id,
\* beschreibung or bilder.)
FieldLess(field, a, b) ==
    CASE field = "preis" -> NumLess(a.preis, b.preis)
      [] field = "baujahr" -> NumLess(a.baujahr, b.baujahr)
      [] field = "kilometerstand" -> NumLess(a.kilometerstand, b.kilometerstand)
      [] field = "marke" -> TextLess(a.marke, b.marke)
      [] field = "modell" -> TextLess(a.modell, b.modell)
      [] field = "kraftstoff" -> TextLess(a.kraftstoff, b.kraftstoff)
      [] field = "createdAt" -> a.createdAt < b.createdAt
      [] field = "updatedAt" -> a.updatedAt < b.updatedAt
      [] OTHER -> FALSE

\* the filters of the handler, applied one after the other
filterVehicles(vs, q) ==
    LET searchTerm == toLowerCase(q.q.s)
        marken == SplitComma(toLowerCase(q.marke.s), <<>>)
        kraftstoffe == SplitComma(toLowerCase(q.kraftstoff.s), <<>>)
        f1 == IF Falsy(q.q) THEN vs
              ELSE SelectSeq(vs, LAMBDA v : \/ Includes(toLowerCase(v.marke), searchTerm)
                                           \/ Includes(toLowerCase(v.modell), searchTerm))
        f2 == IF Falsy(q.marke) THEN f1
              ELSE SelectSeq(f1, LAMBDA v : toLowerCase(v.marke) \in marken)
        f3 == IF Falsy(q.preis_min) THEN f2
              ELSE SelectSeq(f2, LAMBDA v : NumLeq(NumberOf(q.preis_min.s), v.preis))
        f4 == IF Falsy(q.preis_max) THEN f3
              ELSE SelectSeq(f3, LAMBDA v : NumLeq(v.preis, NumberOf(q.preis_max.s)))
        f5 == IF Falsy(q.baujahr_min) THEN f4
              ELSE SelectSeq(f4, LAMBDA v : NumLeq(NumberOf(q.baujahr_min.s), v.baujahr))
        f6 == IF Falsy(q.baujahr_max) THEN f5
              ELSE SelectSeq(f5, LAMBDA v : NumLeq(v.baujahr, NumberOf(q.baujahr_max.s)))
        f7 == IF Falsy(q.km_min) THEN f6
              ELSE SelectSeq(f6, LAMBDA v : NumLeq(NumberOf(q.km_min.s), v.kilometerstand))
        f8 == IF Falsy(q.km_max) THEN f7
              ELSE SelectSeq(f7, LAMBDA v : NumLeq(v.kilometerstand, NumberOf(q.km_max.s)))
    IN IF Falsy(q.kraftstoff) THEN f8
       ELSE SelectSeq(f8, LAMBDA v : toLowerCase(v.kraftstoff) \in kraftstoffe)

\* result.sort(...) by the field and direction asked for
sortVehicles(rows, sortField, descending) ==
    SortRows(rows, [i \in 1..Len(rows) |-> [j \in 1..Len(rows) |->
                       IF descending THEN FieldLess(sortField, rows[j], rows[i])
                       ELSE FieldLess(sortField, rows[i], rows[j])]])

\* endIndex = startIndex + limit
endIndexOf(startIndex, limit) ==
    Num(startIndex.n * limit.d + limit.n * startIndex.d, startIndex.d * limit.d)

\* the page of the sorted result and the pagination block
paginateVehicles(result, page, limit) ==
    LET startIndex == Num((page.n - page.d) * limit.n, page.d * limit.d)
    IN [data |-> SubSeq(result, Min(Trunc(startIndex), Len(result)) + 1,
                        Min(Trunc(endIndexOf(startIndex, limit)), Len(result))),
        pagination |-> [total |-> Len(result), page |-> page, limit |-> limit,
                        totalPages |-> Ceil(Len(result) * limit.d, limit.n)]]

vehiclesGet(vs, q) ==
    paginateVehicles(
        sortVehicles(filterVehicles(vs, q),
                     IF FalsyWord(q.sort) THEN "createdAt" ELSE q.sort.s,
                     q.order.def /\ q.order.s = "desc"),
        NumMaxOf(IntNum(1), NumOr(NumberOfField(q.page), IntNum(1))),
        NumMinOf(IntNum(100), NumMaxOf(IntNum(1), NumOr(NumberOfField(q.limit), IntNum(20)))))

-----------------------------------------------------------------------------
(* Requests to the router of routes/vehicles.js *)

\* what uuidv4() can return
UuidPool == {"uuid-1"}

VehicleIds == {"1", "2", "uuid-1", "non-existent-id"}

VehicleHeaders ==
    { NoHeader, Header(<<"Bearer", "tokUser">>), Header(<<"Bearer", "tokAdmin">>) }

NoList == [def |-> FALSE, list |-> <<>>]

GolfBody ==
    [marke |-> Str(<<"V", "W">>), modell |-> Str(<<"G", "o", "l", "f">>), preis |-> Str(<<"2", "2", "0", "0", "0">>),
     baujahr |-> Str(<<"2", "0", "2", "1">>), kilometerstand |-> Str(<<"3", "0", "0", "0", "0">>),
     kraftstoff |-> Str(<<"D", "i", "e", "s", "e", "l">>), beschreibung |-> NoWord, bilder |-> NoList]

VehicleBodies ==
    { GolfBody,
      [GolfBody EXCEPT !.preis = Str(<<"a", "b", "c">>), !.marke = Str(<<"V">>)],
      [GolfBody EXCEPT !.baujahr = Str(<<"2", "0", "2", "7">>), !.kraftstoff = Undef,
                       !.kilometerstand = Undef] }

NoParams ==
    [q |-> Undef, marke |-> Undef, preis_min |-> Undef, preis_max |-> Undef,
     baujahr_min |-> Undef, baujahr_max |-> Undef, km_min |-> Undef, km_max |-> Undef,
     kraftstoff |-> Undef, sort |-> NoWord, order |-> NoWord, page |-> Undef,
     limit |-> Undef]

VehicleQueries ==
    { NoParams,
      [NoParams EXCEPT !.preis_min = Str(<<"a", "b", "c">>)],
      [NoParams EXCEPT !.preis_min = Str(<<"8", "0", "0", "0", "0">>), !.baujahr_max = Str(<<"2", "0", "2", "2">>)],
      [NoParams EXCEPT !.marke = Str(<<"b", "m", "w", ",", "v", "w">>), !.kraftstoff = Str(<<"B", "e", "n", "z", "i", "n", ",", "d", "i", "e", "s", "e", "l">>)],
      [NoParams EXCEPT !.q = Str(<<"G", "T">>), !.km_min = Str(<<"1", "0", "0", "0", "0">>), !.km_max = Str(<<"1", "2", "0", "0", "0">>)],
      [NoParams EXCEPT !.sort = Word("preis"), !.order = Word("desc"),
                       !.page = Str(<<"2">>), !.limit = Str(<<"1">>)],
      [NoParams EXCEPT !.sort = Word("marke"), !.order = Word("DESC")],
      [NoParams EXCEPT !.sort = Word("preis")],
      [NoParams EXCEPT !.sort = Word("baujahr"), !.order = Word("asc")] }

VehicleGet ==
    /\ \E q \in VehicleQueries :
         last' = [op |-> "vehicles.get", query |-> q,
                  res |-> [status |-> 200, body |-> vehiclesGet(vehicles, q)]]
    /\ UNCHANGED <<pending, users, loginAttempts, now, streak, dbVehicles, inquiries, vehicles, query>>

VehicleGetById ==
    /\ \E id \in VehicleIds :
         LET r == vehiclesGetById(vehicles, id)
         IN /\ vehicles' = r.rows
            /\ last' = [op |-> "vehicles.getById", id |-> id, res |-> r.res]
    /\ UNCHANGED <<pending, users, loginAttempts, now, streak, dbVehicles, inquiries, query>>

VehiclePost ==
    /\ \E body \in VehicleBodies :
       \E uuid \in UuidPool \ {vehicles[i].id : i \in 1..Len(vehicles)} :
         LET r == vehiclesPost(vehicles, body, uuid, now)
         IN /\ vehicles' = r.rows
            /\ last' = [op |-> "vehicles.post", body |-> body, res |-> r.res]
    /\ UNCHANGED <<pending, users, loginAttempts, now, streak, dbVehicles, inquiries, query>>

\* the request carries a header; the handler does not read it
VehicleDelete ==
    /\ \E header \in VehicleHeaders : \E id \in VehicleIds :
         LET r == vehiclesDelete(vehicles, id)
         IN /\ vehicles' = r.rows
            /\ last' = [op |-> "vehicles.delete", header |-> header, id |-> id,
                        res |-> r.res]
    /\ UNCHANGED <<pending, users, loginAttempts, now, streak, dbVehicles, inquiries, query>>

NextVeh == VehicleGet \/ VehicleGetById \/ VehiclePost \/ VehicleDelete \/ Minute

SpecVeh == Init /\ [][NextVeh]_vars

\* C5: DELETE /api/vehicles/:id succeeds only for a verified token whose role
\* is admin; without a token it is answered 401, with a verified token of
\* another role 403, and in both cases the vehicle stays in the store.
C5_DeleteRequiresAdmin ==
    [][ last'.op = "vehicles.delete" =>
          LET h == last'.header
              verified == ~SuppliesNoToken(h) /\ Verifies(h.parts[2])
              admin == verified /\ JwtOf(h.parts[2]).role = "admin"
          IN /\ SuppliesNoToken(h) => (last'.res.status = 401 /\ vehicles' = vehicles)
             /\ (verified /\ ~admin) => (last'.res.status = 403 /\ vehicles' = vehicles)
             /\ last'.res.status = 200 => admin ]_vars

\* vehicle 1 was deleted by a request that carried no Authorization header
C5_Witness ==
    /\ last.op = "vehicles.delete"
    /\ last.header = NoHeader
    /\ last.id = "1"
    /\ last.res.status = 200
    /\ \A i \in 1..Len(vehicles) : vehicles[i].id # "1"

\* the field GET /api/vehicles is asked to sort by
AskedField == IF FalsyWord(last.query.sort) THEN "createdAt" ELSE last.query.sort.s

\* C13: GET /api/vehicles of the in-memory router returns the vehicles in
\* descending order of the sort field when order is absent or anything other
\* than asc, and in ascending order only when order is asc.
C13_RouterDefaultsDescending ==
    last.op = "vehicles.get" =>
        LET data == last.res.body.data
            ascending == last.query.order.def /\ last.query.order.s = "asc"
        IN \A i \in 1..Len(data) : \A j \in i..Len(data) :
              IF ascending THEN ~FieldLess(AskedField, data[j], data[i])
              ELSE ~FieldLess(AskedField, data[i], data[j])

\* sort=preis without an order listed the cheapest of the four vehicles first
C13_Witness ==
    /\ last.op = "vehicles.get"
    /\ last.query.sort = Word("preis")
    /\ ~last.query.order.def
    /\ Len(last.res.body.data) = 4
    /\ NumLess(last.res.body.data[1].preis, last.res.body.data[4].preis)

-----------------------------------------------------------------------------
(* getVehiclesPaginated of data/vehicles.js *)

\* text LIKE pattern: % stands for any run of characters, _ for any one
\* character, letters match without regard to case
RECURSIVE Like(_, _)
Like(text, pattern) ==
    IF pattern = <<>> THEN text = <<>>
    ELSE IF Head(pattern) = "%"
    THEN Like(text, Tail(pattern)) \/ (text # <<>> /\ Like(Tail(text), pattern))
    ELSE /\ text # <<>>
         /\ Head(pattern) = "_" \/ LowerChar(Head(pattern)) = LowerChar(Head(text))
         /\ Like(Tail(text), Tail(pattern))

\* a < b in ORDER BY on a numeric column: NULL sorts before every number
CellLess(a, b) ==
    IF a.null \/ b.null THEN a.null /\ ~b.null ELSE a.n * b.d < b.n * a.d

ColumnLess(column, a, b) ==
    CASE column = "price" -> CellLess(a.price, b.price)
      [] column = "year" -> CellLess(a.year, b.year)
      [] column = "mileage" -> CellLess(a.mileage, b.mileage)
      [] column = "brand" -> TextLess(a.brand, b.brand)
      [] column = "model" -> TextLess(a.model, b.model)
      [] column = "createdAt" -> a.createdAt < b.createdAt

validSortColumns == {"createdAt", "price", "year", "mileage", "brand", "model"}

\* the conditions of the WHERE clause, for one row
Where(row, options) ==
    /\ ~Falsy(options.brand) =>
          Like(toLowerCase(row.brand), toLowerCase(<<"%">> \o options.brand.s \o <<"%">>))
    /\ options.minPrice.def => SqlLeq(BindNum(parseFloat(options.minPrice.s)), row.price)
    /\ options.maxPrice.def => SqlLeq(row.price, BindNum(parseFloat(options.maxPrice.s)))
    /\ options.minYear.def => SqlLeq(BindNum(parseInt(options.minYear.s)), row.year)
    /\ options.maxYear.def => SqlLeq(row.year, BindNum(parseInt(options.maxYear.s)))

\* v => ({...v, images: v.images ? JSON.parse(v.images) : []})
ParseImages(row) ==
    [row EXCEPT !.images = IF row.images # <<>> THEN JSONparse(row.images) ELSE <<>>]

\* the offset taken one page too far
offsetOf_NextPage(safePage, safeLimit) == safePage * safeLimit

\* const offset = (safePage - 1) * safeLimit
offsetOf(safePage, safeLimit) == (safePage - 1) * safeLimit

\* order.toLowerCase() === 'asc' without the toLowerCase()
safeOrder_AsTyped(options) ==
    IF options.order.def /\ options.order.s = <<"a", "s", "c">> THEN "ASC" ELSE "DESC"

\* const safeOrder = order.toLowerCase() === 'asc' ? 'ASC' : 'DESC', order
\* being 'desc' when the option is undefined
safeOrder(options) ==
    LET order == IF options.order.def THEN options.order.s ELSE <<"d", "e", "s", "c">>
    IN IF toLowerCase(order) = <<"a", "s", "c">> THEN "ASC" ELSE "DESC"

\* const safeSortBy = validSortColumns.includes(sortBy) ? sortBy : 'createdAt',
\* sortBy being 'createdAt' when the option is undefined
safeSortBy(options) ==
    LET sortBy == IF options.sortBy.def THEN options.sortBy.s ELSE "createdAt"
    IN IF sortBy \in validSortColumns THEN sortBy ELSE "createdAt"

\* the words the template puts after ORDER BY
orderByClause(options) == <<safeSortBy(options), safeOrder(options)>>

getVehiclesPaginated(dbv, options) ==
    LET safeLimit == Min(Max(1, IntOr(options.limit, 10)), 100)
        safePage == Max(1, IntOr(options.page, 1))
        offset == offsetOf(safePage, safeLimit)
        column == orderByClause(options)[1]
        ascending == orderByClause(options)[2] = "ASC"
        \* SELECT COUNT(*) as total FROM vehicles WHERE ...
        total == Cardinality({i \in 1..Len(dbv) : Where(dbv[i], options)})
        \* SELECT * FROM vehicles WHERE ... ORDER BY ... LIMIT ? OFFSET ?
        selected == SelectSeq(dbv, LAMBDA row : Where(row, options))
        sorted == SortRows(selected,
                     [i \in 1..Len(selected) |-> [j \in 1..Len(selected) |->
                         IF ascending THEN ColumnLess(column, selected[i], selected[j])
                         ELSE ColumnLess(column, selected[j], selected[i])]])
        page == LimitOffset(sorted, safeLimit, offset)
    IN [total |-> total, page |-> safePage, limit |-> safeLimit,
        totalPages |-> Ceil(total, safeLimit),
        vehicles |-> [i \in 1..Len(page) |-> ParseImages(page[i])]]

-----------------------------------------------------------------------------
(* Calls of the data layer: listings added, getVehiclesPaginated asked      *)

V2 == <<"v", "2">>
V3 == <<"v", "3">>

\* a listing without a price that ties with VehicleBMW on the year
VehicleAudi ==
    [id |-> V2, brand |-> Str(<<"A", "u", "d", "i">>), model |-> Str(<<"A", "4">>), year |-> JsNum(2020, 1),
     price |-> Missing, mileage |-> Missing, description |-> Undef,
     images |-> [def |-> FALSE, list |-> <<>>]]

\* a listing without a year, priced 19999.5
VehicleMini ==
    [id |-> V3, brand |-> Str(<<"M", "i", "n", "i">>), model |-> Str(<<"O", "n", "e">>), year |-> Missing,
     price |-> JsNum(39999, 2), mileage |-> JsNum(50000, 1), description |-> Undef,
     images |-> [def |-> TRUE, list |-> <<>>]]

AddListing == AddVehicleWith({VehicleBMW, VehicleAudi, VehicleMini})

NoOptions ==
    [page |-> Undef, limit |-> Undef, brand |-> Undef, minPrice |-> Undef,
     maxPrice |-> Undef, minYear |-> Undef, maxYear |-> Undef, sortBy |-> NoWord,
     order |-> Undef]

Year2020 == [NoOptions EXCEPT !.minYear = Str(<<"2", "0", "2", "0">>), !.maxYear = Str(<<"2", "0", "2", "0">>)]

Filters ==
    { NoOptions, Year2020,
      [NoOptions EXCEPT !.brand = Str(<<"b", "M">>)],
      [NoOptions EXCEPT !.brand = Str(<<"_">>)],
      [NoOptions EXCEPT !.brand = Str(<<>>)],
      [NoOptions EXCEPT !.minPrice = Str(<<"a", "b", "c">>)],
      [NoOptions EXCEPT !.maxYear = Str(<<>>)],
      [NoOptions EXCEPT !.minPrice = Str(<<"1", "9", "9", "9", "9", ".", "5">>), !.maxPrice = Str(<<"2", "5", "0", "0", "0">>)],
      [NoOptions EXCEPT !.minPrice = Str(<<"3", "0", "0", "0", "0">>), !.maxPrice = Str(<<"2", "0", "0", "0", "0">>)],
      [NoOptions EXCEPT !.brand = Str(<<"B", "M", "W">>), !.minYear = Str(<<"2", "0", "2", "1">>)] }

Pagings ==
    { [page |-> Str(<<"2">>), limit |-> Str(<<"1">>)],
      [page |-> Undef, limit |-> Str(<<"2">>)],
      [page |-> Str(<<"3">>), limit |-> Str(<<"2">>)],
      [page |-> Str(<<"0">>), limit |-> Str(<<"a", "b", "c">>)] }

Sortings ==
    { [sortBy |-> NoWord, order |-> Undef],
      [sortBy |-> Word("price"), order |-> Str(<<"a", "s", "c">>)],
      [sortBy |-> Word("year"), order |-> Str(<<"D", "E", "S", "C">>)],
      [sortBy |-> Word("brand; DROP"), order |-> Str(<<"A", "S", "C">>)],
      [sortBy |-> Word("createdAt"), order |-> Str(<<"A", "s", "c">>)],
      [sortBy |-> Word("PRICE"), order |-> Str(<<"u", "p">>)] }

\* what a caller may put for page or for limit: nothing, a word, zero, a
\* negative number, a fraction, a number beyond the cap
PageTexts ==
    { Undef, Str(<<"a", "b", "c">>), Str(<<"0">>), Str(<<"-", "5">>),
      Str(<<"2", ".", "5">>), Str(<<"5", "0", "0">>) }

QueryOptions ==
    Filters \cup
    { [o EXCEPT !.page = p.page, !.limit = p.limit, !.sortBy = st.sortBy,
                !.order = st.order] :
        o \in {NoOptions, Year2020}, p \in Pagings, st \in Sortings } \cup
    { [NoOptions EXCEPT !.page = p, !.limit = l] : p \in PageTexts, l \in PageTexts }

Paginate ==
    /\ \E options \in QueryOptions :
         query' = [op |-> "getVehiclesPaginated", options |-> options,
                   res |-> getVehiclesPaginated(dbVehicles, options)]
    /\ last' = [op |-> "getVehiclesPaginated"]
    /\ UNCHANGED <<pending, users, loginAttempts, now, streak, dbVehicles, inquiries, vehicles>>

\* a listing not yet stored, added a minute after the call before it
AddListingLater ==
    /\ now + LOCKOUT_TIME <= MaxTime
    /\ getVehicleById(dbVehicles, V2) = NoVehicle
    /\ \E vehicle \in {VehicleAudi} :
         LET added == addVehicle(dbVehicles, vehicle, now + LOCKOUT_TIME)
         IN /\ dbVehicles' = added.rows
            /\ last' = [op |-> "addVehicle", id |-> vehicle.id, threw |-> added.threw]
    /\ now' = now + LOCKOUT_TIME
    /\ query' = NoQuery
    /\ UNCHANGED <<pending, users, loginAttempts, streak, inquiries, vehicles>>

NextQuery == AddListing \/ AddListingLater \/ Paginate

SpecQuery == Init /\ [][NextQuery]_vars

-----------------------------------------------------------------------------
(* The listing query: what the filters are to mean *)

AtLeast(cell, x) == ~cell.null /\ x.n * cell.d <= cell.n * x.d
AtMost(cell, x) == ~cell.null /\ cell.n * x.d <= x.n * cell.d

\* a range parameter counts as given when it is present and reads as a number
GivenPrice(f) == f.def /\ ~parseFloat(f.s).nan
GivenYear(f) == f.def /\ ~parseInt(f.s).nan

\* the vehicle's brand contains the text ignoring case, and its price and year
\* are known and lie within the bounds given
SatisfiesFilters(row, o) ==
    /\ ~Falsy(o.brand) => Includes(toLowerCase(row.brand), toLowerCase(o.brand.s))
    /\ GivenPrice(o.minPrice) => AtLeast(row.price, parseFloat(o.minPrice.s))
    /\ GivenPrice(o.maxPrice) => AtMost(row.price, parseFloat(o.maxPrice.s))
    /\ GivenYear(o.minYear) => AtLeast(row.year, parseInt(o.minYear.s))
    /\ GivenYear(o.maxYear) => AtMost(row.year, parseInt(o.maxYear.s))

Asked == query.op = "getVehiclesPaginated"

\* C7: every vehicle in the page getVehiclesPaginated returns satisfies all
\* active filters (brand contains the text ignoring case; price and year
\* within the inclusive bounds), and a vehicle whose filtered field is NULL is
\* not returned for that filter.
C7_PageItemsSatisfyFilters ==
    Asked => \A i \in 1..Len(query.res.vehicles) :
                SatisfiesFilters(query.res.vehicles[i], query.options)

\* a brand filter of one underscore returned a vehicle whose brand has none
C7_Witness ==
    /\ Asked
    /\ query.options.brand = Str(<<"_">>)
    /\ Len(query.res.vehicles) = 3
    /\ ~Includes(query.res.vehicles[1].brand, <<"_">>)

\* C8: total is the number of stored vehicles that satisfy the active filters,
\* whatever page and limit are, and totalPages is ceil(total / limit) for the
\* normalized limit, 0 when nothing matches.
C8_TotalCountsMatches ==
    Asked =>
        /\ query.res.total =
              Cardinality({i \in 1..Len(dbVehicles) :
                              SatisfiesFilters(dbVehicles[i], query.options)})
        /\ \A p \in Pagings :
              getVehiclesPaginated(dbVehicles,
                  [query.options EXCEPT !.page = p.page, !.limit = p.limit]).total
                = query.res.total
        /\ query.res.totalPages * query.res.limit >= query.res.total
        /\ (query.res.totalPages - 1) * query.res.limit < query.res.total
        /\ query.res.total = 0 => query.res.totalPages = 0

\* C10: a range parameter that is present but not a number (abc, or empty) is
\* treated as absent: the result is that of the same query without it.
C10_NonNumericIgnored ==
    Asked =>
        LET o == query.options IN
        /\ (o.minPrice.def /\ ~GivenPrice(o.minPrice)) =>
              query.res = getVehiclesPaginated(dbVehicles, [o EXCEPT !.minPrice = Undef])
        /\ (o.maxPrice.def /\ ~GivenPrice(o.maxPrice)) =>
              query.res = getVehiclesPaginated(dbVehicles, [o EXCEPT !.maxPrice = Undef])
        /\ (o.minYear.def /\ ~GivenYear(o.minYear)) =>
              query.res = getVehiclesPaginated(dbVehicles, [o EXCEPT !.minYear = Undef])
        /\ (o.maxYear.def /\ ~GivenYear(o.maxYear)) =>
              query.res = getVehiclesPaginated(dbVehicles, [o EXCEPT !.maxYear = Undef])

\* minPrice=abc emptied the listing of a store that holds three vehicles
C10_Witness ==
    /\ Asked
    /\ query.options.minPrice = Str(<<"a", "b", "c">>)
    /\ Len(dbVehicles) = 3
    /\ query.res.total = 0
    /\ query.res.vehicles = <<>>

-----------------------------------------------------------------------------
(* The listing query: pages *)

\* the decimal text of a positive integer
RECURSIVE Decimal(_)
Decimal(k) ==
    LET digit == CHOOSE c \in Digits : DigitVal(c) = k % 10
    IN IF k < 10 THEN <<digit>> ELSE Append(Decimal(k \div 10), digit)

\* the same query asked for page k
PageOf(k) == getVehiclesPaginated(dbVehicles, [query.options EXCEPT !.page = Str(Decimal(k))])

\* the items of pages 1..k one after the other
RECURSIVE PagesUpTo(_)
PagesUpTo(k) == IF k = 0 THEN <<>> ELSE PagesUpTo(k - 1) \o PageOf(k).vehicles

\* the whole filtered, sorted sequence: the same query asked for one page
\* that holds every vehicle of the store
WholeListing ==
    getVehiclesPaginated(dbVehicles,
        [query.options EXCEPT !.page = Str(<<"1">>), !.limit = Str(<<"1", "0", "0">>)]).vehicles

\* C9: for a fixed store, filter, sort and limit, the items of pages
\* 1..totalPages one after the other are the whole filtered, sorted sequence,
\* each vehicle of it once, also when vehicles tie on the sort field; every
\* page but the last holds exactly limit items; a page beyond totalPages is
\* empty and reports the same total and totalPages.
C9_PagesPartition ==
    Asked =>
        LET T == query.res.totalPages
            all == PagesUpTo(T)
        IN /\ all = WholeListing
           /\ Len(all) = query.res.total
           /\ \A i \in 1..Len(all) : \A j \in 1..Len(all) : all[i].id = all[j].id => i = j
           /\ \A k \in 1..(T - 1) : Len(PageOf(k).vehicles) = query.res.limit
           /\ \A k \in (T + 1)..(T + 2) :
                 /\ PageOf(k).vehicles = <<>>
                 /\ PageOf(k).total = query.res.total
                 /\ PageOf(k).totalPages = T

\* two vehicles tie on the year the query sorts by and come on two pages of
\* one item, the vehicle stored first on the first
C9_Witness ==
    /\ Asked
    /\ query.options.sortBy = Word("year")
    /\ query.res.limit = 1
    /\ query.res.page = 2
    /\ query.res.totalPages = 2
    /\ Len(query.res.vehicles) = 1
    /\ PageOf(1).vehicles[1].year = query.res.vehicles[1].year
    /\ PageOf(1).vehicles[1].id = dbVehicles[1].id
    /\ Len(dbVehicles) = 3

-----------------------------------------------------------------------------
(* The listing query: page and limit *)

\* a page or limit input that is absent or does not read as a number
NotNumeric(f) == ~f.def \/ parseInt(f.s).nan

-----------------------------------------------------------------------------
(* The listing query: ORDER BY *)

\* the column and direction the options are to mean
WantedColumn ==
    IF query.options.sortBy.def
       /\ query.options.sortBy.s \in {"createdAt", "price", "year", "mileage", "brand", "model"}
    THEN query.options.sortBy.s ELSE "createdAt"

WantedAscending ==
    query.options.order.def /\ toLowerCase(query.options.order.s) = <<"a", "s", "c">>

\* row a may stand before row b in the wanted order
InWantedOrder(a, b) ==
    IF WantedAscending THEN ~ColumnLess(WantedColumn, b, a)
    ELSE ~ColumnLess(WantedColumn, a, b)

\* C12: the rows come ordered by sortBy when it is one of createdAt, price,
\* year, mileage, brand, model and by createdAt for every other value,
\* ascending only when order is asc in any letter case and descending
\* otherwise; the words after ORDER BY are an allow-listed column and ASC or
\* DESC, never other text of the caller.
C12_SortAllowList ==
    Asked =>
        /\ orderByClause(query.options)[1] \in
              {"createdAt", "price", "year", "mileage", "brand", "model"}
        /\ orderByClause(query.options)[1] = WantedColumn
        /\ orderByClause(query.options)[2] = (IF WantedAscending THEN "ASC" ELSE "DESC")
        /\ \A i \in 1..Len(WholeListing) : \A j \in i..Len(WholeListing) :
              InWantedOrder(WholeListing[i], WholeListing[j])

\* sortBy 'brand; DROP' with order ASC listed two vehicles oldest first
C12_Witness ==
    /\ Asked
    /\ query.options.sortBy = Word("brand; DROP")
    /\ query.options.order = Str(<<"A", "S", "C">>)
    /\ Len(query.res.vehicles) = 2
    /\ query.res.vehicles[1].createdAt < query.res.vehicles[2].createdAt


-----------------------------------------------------------------------------
(* The two vehicle stores and the inquiries table under updates, deletions  *)
(* and clearing                                                             *)

\* clearVehicles(): DELETE FROM vehicles raises a constraint error while an
\* inquiry references one of the rows
clearVehicles(dbv, inqs) ==
    IF \E i \in 1..Len(inqs) : \E j \in 1..Len(dbv) : inqs[i].vehicleId = dbv[j].id
    THEN [threw |-> TRUE, rows |-> dbv]
    ELSE [threw |-> FALSE, rows |-> <<>>]

NoUpdates ==
    [id |-> Undef, createdAt |-> Missing, brand |-> Undef, model |-> Undef,
     year |-> Missing, price |-> Missing, mileage |-> Missing, description |-> Undef,
     images |-> [def |-> FALSE, list |-> <<>>]]

VehicleUpdates ==
    { [NoUpdates EXCEPT !.price = JsNum(26000, 1)],
      [NoUpdates EXCEPT !.id = Str(V9), !.createdAt = JsNum(5, 1),
                        !.brand = Str(<<"V", "W">>),
                        !.images = [def |-> TRUE, list |-> <<"c.jpg">>]] }

StoreIds == {V1, V2, V9}

StoreAdd == AddVehicleWith({VehicleBMW, VehicleAudi})

StoreUpdate ==
    /\ \E id \in {V1, V9} : \E updates \in VehicleUpdates :
         LET r == updateVehicle(dbVehicles, id, updates, now)
         IN /\ dbVehicles' = r.rows
            /\ last' = [op |-> "updateVehicle", id |-> id, updates |-> updates,
                        found |-> r.found, vehicle |-> r.vehicle]
    /\ query' = NoQuery
    /\ UNCHANGED <<pending, users, loginAttempts, now, streak, inquiries, vehicles>>

StoreDelete ==
    /\ \E id \in StoreIds :
         LET gone == deleteVehicle(dbVehicles, inquiries, id)
         IN /\ dbVehicles' = gone.rows
            /\ last' = [op |-> "deleteVehicle", id |-> id, threw |-> gone.threw,
                        deleted |-> gone.deleted]
    /\ query' = NoQuery
    /\ UNCHANGED <<pending, users, loginAttempts, now, streak, inquiries, vehicles>>

StoreClear ==
    /\ LET gone == clearVehicles(dbVehicles, inquiries)
       IN /\ dbVehicles' = gone.rows
          /\ last' = [op |-> "clearVehicles", threw |-> gone.threw]
    /\ query' = NoQuery
    /\ UNCHANGED <<pending, users, loginAttempts, now, streak, inquiries, vehicles>>

\* addInquiry(inquiry) with the id the route makes of Date.now()
StoreInquiry ==
    /\ Len(inquiries) < MaxInquiries
    /\ \E vehicleId \in {V1, V9} :
         LET r == addInquiry(inquiries, dbVehicles,
                             [id |-> now, vehicleId |-> vehicleId, name |-> <<"M", "a", "x">>,
                              email |-> EmailA, phone |-> TextOrNull(Undef),
                              message |-> Message10], now)
         IN /\ inquiries' = r.rows
            /\ last' = [op |-> "addInquiry", vehicleId |-> vehicleId, threw |-> r.threw]
    /\ UNCHANGED <<pending, users, loginAttempts, now, streak, dbVehicles, vehicles, query>>

StoreInquiryDelete ==
    /\ \E id \in {0, LOCKOUT_TIME} :
         /\ inquiries' = deleteInquiry(inquiries, id)
         /\ last' = [op |-> "deleteInquiry", id |-> id,
                     deleted |-> getInquiryById(inquiries, id) # NoInquiry]
    /\ UNCHANGED <<pending, users, loginAttempts, now, streak, dbVehicles, vehicles, query>>

NoPutBody ==
    [id |-> Undef, createdAt |-> Undef, marke |-> Undef, modell |-> Undef,
     preis |-> Undef, baujahr |-> Undef, kilometerstand |-> Undef, kraftstoff |-> Undef,
     beschreibung |-> NoWord, bilder |-> NoList]

PutBodies ==
    { [NoPutBody EXCEPT !.preis = Str(<<"7", "0", "0", "0", "0">>)],
      [NoPutBody EXCEPT !.id = Str(<<"9">>), !.createdAt = Str(<<"5">>),
                        !.kraftstoff = Str(<<"D", "i", "e", "s", "e", "l">>),
                        !.beschreibung = Word("neu")],
      [NoPutBody EXCEPT !.preis = Str(<<"a", "b", "c">>), !.marke = Str(<<"V", "W">>)] }

VehiclePut ==
    /\ \E id \in {"2", "non-existent-id"} : \E body \in PutBodies :
         LET r == vehiclesPut(vehicles, id, body, now)
         IN /\ vehicles' = r.rows
            /\ last' = [op |-> "vehicles.put", id |-> id, body |-> body, res |-> r.res]
    /\ UNCHANGED <<pending, users, loginAttempts, now, streak, dbVehicles, inquiries, query>>

NextStore ==
    \/ StoreAdd \/ StoreDelete \/ StoreClear
    \/ StoreInquiry \/ StoreInquiryDelete \/ Minute

SpecStore == Init /\ [][NextStore]_vars

NextUpdate == StoreAdd \/ StoreUpdate \/ VehiclePut \/ Minute

SpecUpdate == Init /\ [][NextUpdate]_vars


\* the row an update of old by u at time t should leave: the columns u
\* provides hold u's values, the others and id and createdAt those of old
RowMergedFrom(new, old, u, t) ==
    /\ new.id = old.id
    /\ new.createdAt = old.createdAt
    /\ new.updatedAt = t
    /\ new.brand = IF u.brand.def THEN u.brand.s ELSE old.brand
    /\ new.model = IF u.model.def THEN u.model.s ELSE old.model
    /\ new.year = IF u.year.def THEN SqlNum(u.year.n, u.year.d) ELSE old.year
    /\ new.price = IF u.price.def THEN SqlNum(u.price.n, u.price.d) ELSE old.price
    /\ new.mileage = IF u.mileage.def THEN SqlNum(u.mileage.n, u.mileage.d)
                     ELSE old.mileage
    /\ new.description = IF u.description.def THEN [null |-> FALSE, s |-> u.description.s]
                         ELSE old.description
    /\ IF u.images.def THEN JSONparse(new.images) = u.images.list
       ELSE new.images = old.images

\* the same for a vehicle of the router's array and a request body
VehicleMergedFrom(new, old, b, t) ==
    /\ new.id = old.id
    /\ new.createdAt = old.createdAt
    /\ new.updatedAt = t
    /\ new.marke = IF b.marke.def THEN b.marke.s ELSE old.marke
    /\ new.modell = IF b.modell.def THEN b.modell.s ELSE old.modell
    /\ IF b.preis.def THEN NumEq(new.preis, NumberOfField(b.preis))
       ELSE new.preis = old.preis
    /\ IF b.baujahr.def THEN NumEq(new.baujahr, NumberOfField(b.baujahr))
       ELSE new.baujahr = old.baujahr
    /\ IF b.kilometerstand.def THEN NumEq(new.kilometerstand, NumberOfField(b.kilometerstand))
       ELSE new.kilometerstand = old.kilometerstand
    /\ new.kraftstoff = IF b.kraftstoff.def THEN toLowerCase(b.kraftstoff.s)
                        ELSE old.kraftstoff
    /\ new.beschreibung = IF b.beschreibung.def THEN b.beschreibung.s ELSE old.beschreibung
    /\ new.bilder = IF b.bilder.def THEN b.bilder.list ELSE old.bilder

\* C21: updating a vehicle replaces the fields the update provides and no
\* others, leaves every other vehicle as it was, keeps the vehicle's id and
\* createdAt even when the update supplies them, and sets updatedAt to the time
\* of the update; updating an unknown id gives the not-found signal (null from
\* updateVehicle, 404 from PUT /api/vehicles/:id) and changes nothing.
C21_UpdateMergesFields ==
    [][ /\ last'.op = "updateVehicle" =>
             LET hits == {i \in 1..Len(dbVehicles) : dbVehicles[i].id = last'.id} IN
             IF hits = {}
             THEN ~last'.found /\ dbVehicles' = dbVehicles
             ELSE /\ last'.found
                  /\ Len(dbVehicles') = Len(dbVehicles)
                  /\ \A i \in 1..Len(dbVehicles) :
                        IF i \in hits
                        THEN RowMergedFrom(dbVehicles'[i], dbVehicles[i],
                                           last'.updates, now)
                        ELSE dbVehicles'[i] = dbVehicles[i]
        /\ last'.op = "vehicles.put" =>
             LET hits == {i \in 1..Len(vehicles) : vehicles[i].id = last'.id} IN
             /\ hits = {} <=> last'.res.status = 404
             /\ last'.res.status # 200 => vehicles' = vehicles
             /\ last'.res.status = 200 =>
                  /\ Len(vehicles') = Len(vehicles)
                  /\ \A i \in 1..Len(vehicles) :
                        IF i \in hits
                        THEN VehicleMergedFrom(vehicles'[i], vehicles[i],
                                               last'.body, now)
                        ELSE vehicles'[i] = vehicles[i] ]_vars

\* a minute after it was added, the BMW was updated with a brand, images, an
\* id and a createdAt: brand and images are new, the id, createdAt, year and
\* price are the old ones, and the Audi is as it was added
C21_Witness ==
    /\ last.op = "updateVehicle"
    /\ last.found
    /\ last.updates.id = Str(V9)
    /\ now = LOCKOUT_TIME
    /\ Len(dbVehicles) = 2
    /\ dbVehicles[1].id = V1
    /\ dbVehicles[1].brand = <<"V", "W">>
    /\ dbVehicles[1].createdAt = 0
    /\ dbVehicles[1].updatedAt = LOCKOUT_TIME
    /\ dbVehicles[1].price = SqlNum(25000, 1)
    /\ JSONparse(dbVehicles[1].images) = <<"c.jpg">>
    /\ dbVehicles[2].id = V2
    /\ dbVehicles[2].updatedAt = -1


-----------------------------------------------------------------------------
(* Deleting vehicles, and the inquiries that reference them *)

Stored(dbv, id) == \E i \in 1..Len(dbv) : dbv[i].id = id

Referenced(inqs, id) == \E i \in 1..Len(inqs) : inqs[i].vehicleId = id

\* C22: for any id and any state of the store, deleteVehicle returns true and
\* removes exactly the vehicle with that id when it is stored, and returns
\* false and changes nothing when it is not; so a second delete of the id
\* returns false and a lookup after a successful delete finds nothing.
C22_DeleteReturnsWhetherExisted ==
    [][ last'.op = "deleteVehicle" =>
          IF Stored(dbVehicles, last'.id)
          THEN /\ ~last'.threw
               /\ last'.deleted
               /\ dbVehicles' = SelectSeq(dbVehicles, LAMBDA v : v.id # last'.id)
               /\ getVehicleById(dbVehicles', last'.id) = NoVehicle
          ELSE /\ ~last'.threw
               /\ ~last'.deleted
               /\ dbVehicles' = dbVehicles ]_vars

\* deleteVehicle raised an error for a stored vehicle that an inquiry
\* references, and the vehicle is still stored
C22_Witness ==
    /\ last.op = "deleteVehicle"
    /\ last.threw
    /\ ~last.deleted
    /\ Stored(dbVehicles, last.id)
    /\ Referenced(inquiries, last.id)

\* C29: every stored inquiry's vehicleId names a vehicle that is stored,
\* whatever vehicles and inquiries were created and deleted before.
C29_NoDanglingInquiry ==
    \A i \in 1..Len(inquiries) : Stored(dbVehicles, inquiries[i].vehicleId)

\* clearing the vehicles was refused while an inquiry references one of them,
\* and both the inquiry and its vehicle are still stored
C29_Witness ==
    /\ last.op = "clearVehicles"
    /\ last.threw
    /\ Len(inquiries) = 2
    /\ Len(dbVehicles) = 2
    /\ Stored(dbVehicles, inquiries[1].vehicleId)


-----------------------------------------------------------------------------
(* server.js (KFZ-29): its own array of vehicles, filled by POST             *)
(* /api/vehicles from a multipart form (every field a text) and read by     *)
(* GET /api/vehicles.  In the specification of this section the variable    *)
(* vehicles is that array, which starts empty.                              *)

MaxServerVehicles == 2   \* vehicles posted to server.js at most

\* the id is Date.now() as a text; the model writes it as the number
serverPost(vs, body, t) ==
    Append(vs, [id |-> t, marke |-> body.marke, preis |-> body.preis,
                baujahr |-> body.baujahr, kilometerstand |-> body.kilometerstand,
                kraftstoff |-> body.kraftstoff, titel |-> body.titel,
                beschreibung |-> body.beschreibung, images |-> <<>>])

\* v.x > parseInt(bound), v.x <= parseInt(bound), v.x >= parseInt(bound) with
\* the text v.x converted to a number
TextAbove(text, bound) == NumLess(parseInt(bound), NumberOf(text))
TextAtMost(text, bound) == NumLeq(NumberOf(text), parseInt(bound))
TextAtLeast(text, bound) == NumLeq(parseInt(bound), NumberOf(text))

\* (v.titel && v.titel.includes(q)) || (v.beschreibung && v.beschreibung.includes(q))
serverSearchHit(v, q) ==
    \/ ~Falsy(v.titel) /\ Includes(v.titel.s, q)
    \/ ~Falsy(v.beschreibung) /\ Includes(v.beschreibung.s, q)

\* the filters of GET /api/vehicles, each applied when its parameter is truthy
serverKeeps(v, q) ==
    /\ ~Falsy(q.marke) => v.marke = q.marke.s
    /\ ~Falsy(q.preis_min) => TextAbove(v.preis, q.preis_min.s)
    /\ ~Falsy(q.preis_max) => TextAtMost(v.preis, q.preis_max.s)
    /\ ~Falsy(q.baujahr_min) => TextAtLeast(v.baujahr, q.baujahr_min.s)
    /\ ~Falsy(q.baujahr_max) => TextAtMost(v.baujahr, q.baujahr_max.s)
    /\ ~Falsy(q.km_min) => TextAtMost(v.kilometerstand, q.km_min.s)
    /\ ~Falsy(q.km_max) => TextAtLeast(v.kilometerstand, q.km_max.s)
    /\ ~Falsy(q.kraftstoff) => v.kraftstoff = q.kraftstoff.s
    /\ ~Falsy(q.q) => serverSearchHit(v, q.q.s)

serverFilter(vs, q) == SelectSeq(vs, LAMBDA v : serverKeeps(v, q))

\* the comparator of result.sort is negative for (a, b)
serverCompareNegative(sort, descending, a, b) ==
    CASE sort = "preis" ->
           IF descending THEN NumLess(NumberOf(b.preis), NumberOf(a.preis))
           ELSE NumLess(NumberOf(a.preis), NumberOf(b.preis))
      [] sort = "baujahr" ->
           IF descending THEN NumLess(NumberOf(a.baujahr), NumberOf(b.baujahr))
           ELSE NumLess(NumberOf(b.baujahr), NumberOf(a.baujahr))
      [] sort = "km" ->
           IF descending
           THEN NumLess(NumberOf(b.kilometerstand), NumberOf(a.kilometerstand))
           ELSE NumLess(NumberOf(a.kilometerstand), NumberOf(b.kilometerstand))
      [] OTHER -> FALSE

\* if (sort) result.sort(...), which is stable
serverSort(rows, sort, order) ==
    IF FalsyWord(sort) THEN rows
    ELSE SortRows(rows,
                  [i \in 1..Len(rows) |-> [j \in 1..Len(rows) |->
                      serverCompareNegative(sort.s, order.def /\ order.s = "desc",
                                            rows[i], rows[j])]])

\* GET /api/vehicles
serverVehiclesGet(vs, q) == serverSort(serverFilter(vs, q), q.sort, q.order)

T30000 == <<"3", "0", "0", "0", "0">>
T20000 == <<"2", "0", "0", "0", "0">>
T50000 == <<"5", "0", "0", "0", "0">>
T2020 == <<"2", "0", "2", "0">>
T2022 == <<"2", "0", "2", "2">>

ServerBodies ==
    { [marke |-> <<"B", "M", "W">>, preis |-> T30000, baujahr |-> T2020,
       kilometerstand |-> T50000, kraftstoff |-> diesel,
       titel |-> Str(<<"B", "M", "W", " ", "G", "T">>), beschreibung |-> Undef],
      [marke |-> <<"A", "u", "d", "i">>, preis |-> T20000, baujahr |-> T2022,
       kilometerstand |-> T20000, kraftstoff |-> benzin,
       titel |-> Undef, beschreibung |-> Str(<<"g", "t">>)],
      [marke |-> <<"V", "W">>, preis |-> T30000, baujahr |-> T2022,
       kilometerstand |-> T30000, kraftstoff |-> diesel,
       titel |-> Str(<<"G", "o", "l", "f">>), beschreibung |-> Str(<<>>)] }

ServerFilterQueries ==
    { NoParams,
      [NoParams EXCEPT !.marke = Str(<<"B", "M", "W">>)],
      [NoParams EXCEPT !.kraftstoff = Str(diesel)],
      [NoParams EXCEPT !.preis_min = Str(T30000)],
      [NoParams EXCEPT !.preis_max = Str(T20000)],
      [NoParams EXCEPT !.baujahr_min = Str(T2022)],
      [NoParams EXCEPT !.baujahr_max = Str(T2020)],
      [NoParams EXCEPT !.km_min = Str(T30000)],
      [NoParams EXCEPT !.km_max = Str(T30000)],
      [NoParams EXCEPT !.q = Str(<<"g", "t">>)] }

ServerSortQueries ==
    { [NoParams EXCEPT !.sort = Word(f), !.order = o] :
        f \in {"preis", "baujahr", "km", "created_at"},
        o \in {NoWord, Word("asc"), Word("desc")} }

ServerPost ==
    /\ Len(vehicles) < MaxServerVehicles
    /\ \E body \in ServerBodies :
         /\ vehicles' = serverPost(vehicles, body, now)
         /\ last' = [op |-> "server.post", body |-> body]
    /\ UNCHANGED <<pending, users, loginAttempts, now, streak, dbVehicles, inquiries, query>>

ServerGet ==
    /\ \E q \in ServerFilterQueries \cup ServerSortQueries :
         last' = [op |-> "server.get", query |-> q,
                  res |-> [status |-> 200, body |-> serverVehiclesGet(vehicles, q)]]
    /\ UNCHANGED <<pending, users, loginAttempts, now, streak, dbVehicles, inquiries, vehicles, query>>

InitServer ==
    /\ users = <<>>
    /\ loginAttempts = <<>>
    /\ now = 0
    /\ last = Idle
    /\ streak = [k \in Keys |-> NoStreak]
    /\ dbVehicles = <<>>
    /\ inquiries = <<>>
    /\ vehicles = <<>>
    /\ query = NoQuery
    /\ pending = <<>>

NextServer == ServerPost \/ ServerGet \/ Minute

SpecServer == InitServer /\ [][NextServer]_vars


\* the text of an optional field, empty when the field is missing
TextOf(f) == IF f.def THEN f.s ELSE <<>>

\* bound <= value <= bound, for the bounds that are given
WithinBounds(text, lo, hi) ==
    /\ lo.def => NumLeq(parseInt(lo.s), NumberOf(text))
    /\ hi.def => NumLeq(NumberOf(text), parseInt(hi.s))

\* the vehicle satisfies every filter the query supplies
SatisfiesQuery(v, q) ==
    /\ q.marke.def => v.marke = q.marke.s
    /\ q.kraftstoff.def => v.kraftstoff = q.kraftstoff.s
    /\ WithinBounds(v.preis, q.preis_min, q.preis_max)
    /\ WithinBounds(v.baujahr, q.baujahr_min, q.baujahr_max)
    /\ WithinBounds(v.kilometerstand, q.km_min, q.km_max)
    /\ q.q.def => \/ Includes(toLowerCase(TextOf(v.titel)), toLowerCase(q.q.s))
                  \/ Includes(toLowerCase(TextOf(v.beschreibung)), toLowerCase(q.q.s))

Elements(seq) == {seq[i] : i \in 1..Len(seq)}

\* C25: the result of GET /api/vehicles of server.js holds exactly the stored
\* vehicles that satisfy every supplied filter: marke and kraftstoff equal to
\* the given value, preis, baujahr and kilometerstand within the inclusive
\* bounds, and q contained in the title or the description ignoring case.
C25_ResultIsTheMatches ==
    last.op = "server.get" =>
        Elements(last.res.body) = {v \in Elements(vehicles) : SatisfiesQuery(v, last.query)}

\* a vehicle priced 30000 is stored and the result for preis_min=30000 is empty
C25_Witness ==
    /\ last.op = "server.get"
    /\ last.query.preis_min = Str(T30000)
    /\ \E i \in 1..Len(vehicles) : vehicles[i].preis = T30000
    /\ last.res.body = <<>>

DocumentedSorts == {"preis", "baujahr", "km", "created_at"}

\* the value a vehicle is sorted by
SortKey(v, sort) ==
    CASE sort = "preis" -> NumberOf(v.preis)
      [] sort = "baujahr" -> NumberOf(v.baujahr)
      [] sort = "km" -> NumberOf(v.kilometerstand)
      [] sort = "created_at" -> IntNum(v.id)

\* C26: when sort is preis, baujahr, km or created_at, the whole result of
\* GET /api/vehicles of server.js is monotonic in that field, non-increasing
\* when order is desc and non-decreasing otherwise, and vehicles with equal
\* keys are in their stored order.
C26_SortedAndStable ==
    (last.op = "server.get" /\ last.query.sort.def /\ last.query.sort.s \in DocumentedSorts) =>
        LET rows == last.res.body
            sort == last.query.sort.s
            descending == last.query.order = Word("desc")
        IN /\ \A i \in 1..Len(rows) : \A j \in (i + 1)..Len(rows) :
                 IF descending
                 THEN NumLeq(SortKey(rows[j], sort), SortKey(rows[i], sort))
                 ELSE NumLeq(SortKey(rows[i], sort), SortKey(rows[j], sort))
           /\ \A v \in Elements(rows) :
                 SelectSeq(rows, LAMBDA r : NumEq(SortKey(r, sort), SortKey(v, sort)))
                   = SelectSeq(vehicles, LAMBDA r : r \in Elements(rows)
                                  /\ NumEq(SortKey(r, sort), SortKey(v, sort)))

\* sort=baujahr without an order returned the vehicle of 2022 before the one
\* of 2020
C26_Witness ==
    /\ last.op = "server.get"
    /\ last.query.sort = Word("baujahr")
    /\ last.query.order = NoWord
    /\ Len(last.res.body) = 2
    /\ last.res.body[1].baujahr = T2022
    /\ last.res.body[2].baujahr = T2020


-----------------------------------------------------------------------------
(* scripts/seed.js *)

AdminTestCom == <<"a", "d", "m", "i", "n", "@", "t", "e", "s", "t", ".", "c", "o", "m">>
AdminTestComUp == <<"A", "D", "M", "I", "N", "@", "t", "e", "s", "t", ".", "c", "o", "m">>
UserTestCom == <<"u", "s", "e", "r", "@", "t", "e", "s", "t", ".", "c", "o", "m">>
Test123 == <<"t", "e", "s", "t", "1", "2", "3">>

SEED_USERS ==
    << [email |-> AdminTestCom, password |-> Test123, name |-> "Test Admin", role |-> "admin"],
       [email |-> UserTestCom, password |-> Test123, name |-> "Test User", role |-> "user"] >>

\* `seed-${Date.now()}-${random}`: a number no Date.now() id and no other seed
\* id equals; k numbers the random parts
SeedId(t, k) == 10 * (MaxTime + 1 + t) + k

NoSeedResults == [created |-> <<>>, skipped |-> <<>>, errors |-> <<>>]

\* the loop body without the check for an existing user
seedOne_Unchecked(acc, snapshot, seedUser, t, k) ==
    LET user == [id |-> SeedId(t, k), email |-> toLowerCase(seedUser.email),
                 password |-> bcryptHash(seedUser.password), name |-> seedUser.name,
                 role |-> seedUser.role, createdAt |-> t]
    IN IF insertUserThrows(acc.users, user)
       THEN [acc EXCEPT !.results.errors = Append(@, seedUser.email)]
       ELSE [users |-> addUserTo(acc.users, user),
             results |-> [acc.results EXCEPT !.created = Append(@, seedUser.email)]]

\* one round of the loop of seedUsers; snapshot is what getUsers() returned
\* before the loop
seedOne(acc, snapshot, seedUser, t, k) ==
    LET existing == \E i \in 1..Len(snapshot) :
                       toLowerCase(snapshot[i].email) = toLowerCase(seedUser.email)
        user == [id |-> SeedId(t, k), email |-> toLowerCase(seedUser.email),
                 password |-> bcryptHash(seedUser.password), name |-> seedUser.name,
                 role |-> seedUser.role, createdAt |-> t]
    IN IF existing
       THEN [acc EXCEPT !.results.skipped = Append(@, seedUser.email)]
       ELSE IF insertUserThrows(acc.users, user)
       THEN [acc EXCEPT !.results.errors = Append(@, seedUser.email)]
       ELSE [users |-> addUserTo(acc.users, user),
             results |-> [acc.results EXCEPT !.created = Append(@, seedUser.email)]]

seedUsers(us, t) ==
    seedOne(seedOne([users |-> us, results |-> NoSeedResults], us, SEED_USERS[1], t, 1),
            us, SEED_USERS[2], t, 2)

SeedUsers ==
    /\ LET r == seedUsers(users, now)
       IN /\ users' = r.users
          /\ last' = [op |-> "seedUsers", results |-> r.results]
    /\ UNCHANGED <<pending, loginAttempts, now, streak, dbVehicles, inquiries, vehicles, query>>

\* somebody registers under a seed email before or after the seeding
RegisterSeedEmail == RegisterWith({Str(AdminTestComUp), Str(UserTestCom)}, {Str(PwGood)})

NextSeed == SeedUsers \/ RegisterSeedEmail \/ Tick

SpecSeed == Init /\ [][NextSeed]_vars

\* a user is stored under the email, whatever the case of its letters
HoldsEmail(us, email) == \E i \in 1..Len(us) : SameEmail(us[i].email, email)

SeedEmails == <<SEED_USERS[1].email, SEED_USERS[2].email>>

\* C24: seedUsers run on a store that holds the seed users creates no user,
\* reports every seed email as skipped and leaves every stored user (id,
\* password hash, createdAt and all) as it was; and after any run the store
\* holds the seed users, so that a further run changes nothing.
C24_SeedIdempotent ==
    [][ last'.op = "seedUsers" =>
          /\ (\A k \in 1..Len(SeedEmails) : HoldsEmail(users, SeedEmails[k])) =>
                /\ users' = users
                /\ last'.results = [created |-> <<>>, skipped |-> SeedEmails,
                                    errors |-> <<>>]
          /\ \A k \in 1..Len(SeedEmails) : HoldsEmail(users', SeedEmails[k])
          /\ SubSeq(users', 1, Len(users)) = users ]_vars

\* a second run, later than the first, skipped both seed users, and the two
\* users are those of the first run
C24_Witness ==
    /\ last.op = "seedUsers"
    /\ last.results.skipped = SeedEmails
    /\ last.results.created = <<>>
    /\ Len(users) = 2
    /\ users[1].role = "admin"
    /\ users[1].id = SeedId(0, 1)
    /\ users[1].createdAt = 0
    /\ now > 0


-----------------------------------------------------------------------------
(* Requests in flight at once: a login suspends at await bcrypt.compare, a   *)
(* registration at await bcrypt.hash, and other requests run in between.    *)

MaxPending == 2     \* requests suspended at the same time at most

Without(seq, i) == SubSeq(seq, 1, i - 1) \o SubSeq(seq, i + 1, Len(seq))

\* the login handler returns before bcrypt.compare: a field is missing, the
\* guard blocks, or no user is found
loginEndsEarly(us, la, t, email, password) ==
    \/ Falsy(email) \/ Falsy(password)
    \/ ~checkRateLimit(la, toLowerCase(email.s), t).allowed
    \/ findUserByEmailIn(us, email.s) = NoUser

\* the registration handler returns before bcrypt.hash
registerEndsEarly(us, t, email, password) ==
    registerHandler(us, t, email, password, Undef).res.status \in {400, 409}

LoginArrive ==
    \E email \in {Str(EmailA)}, password \in {Str(PwGood), Str(PwOther)} :
        LET key == toLowerCase(email.s) IN
        IF loginEndsEarly(users, loginAttempts, now, email, password)
        THEN LET r == loginHandler(users, loginAttempts, now, email, password) IN
             /\ loginAttempts' = r.la
             /\ last' = [op |-> "login", email |-> email, password |-> password,
                         key |-> key, res |-> r.res,
                         looked |-> r.looked, compared |-> r.compared]
             /\ UNCHANGED <<users, now, streak, dbVehicles, inquiries, vehicles, query,
                            pending>>
        ELSE /\ Len(pending) < MaxPending
             /\ loginAttempts' = checkRateLimit(loginAttempts, key, now).la
             /\ pending' = Append(pending,
                              [op |-> "login", email |-> email, password |-> password,
                               key |-> key,
                               user |-> findUserByEmailIn(users, email.s)])
             /\ last' = [op |-> "login.await", email |-> email, password |-> password,
                         key |-> key]
             /\ UNCHANGED <<users, now, streak, dbVehicles, inquiries, vehicles, query>>

LoginResume ==
    \E i \in 1..Len(pending) :
        /\ pending[i].op = "login"
        /\ LET p == pending[i]
               r == loginAfterCompare(loginAttempts, p.key, now, p.password, p.user)
           IN /\ loginAttempts' = r.la
              /\ last' = [op |-> "login", email |-> p.email, password |-> p.password,
                          key |-> p.key, res |-> r.res,
                          looked |-> r.looked, compared |-> r.compared]
        /\ pending' = Without(pending, i)
        /\ UNCHANGED <<users, now, streak, dbVehicles, inquiries, vehicles, query>>

RegisterArrive ==
    \E email \in {Str(EmailA), Str(EmailAUp)}, password \in {Str(PwGood)} :
        IF registerEndsEarly(users, now, email, password)
        THEN LET r == registerHandler(users, now, email, password, Undef) IN
             /\ users' = r.users
             /\ last' = [op |-> "register", email |-> email, password |-> password,
                         res |-> r.res]
             /\ UNCHANGED <<loginAttempts, now, streak, dbVehicles, inquiries, vehicles,
                            query, pending>>
        ELSE /\ Len(pending) < MaxPending
             /\ pending' = Append(pending,
                              [op |-> "register", email |-> email, password |-> password])
             /\ last' = [op |-> "register.await", email |-> email, password |-> password]
             /\ UNCHANGED <<users, loginAttempts, now, streak, dbVehicles, inquiries,
                            vehicles, query>>

RegisterResume ==
    \E i \in 1..Len(pending) :
        /\ pending[i].op = "register"
        /\ LET p == pending[i]
               r == registerAfterHash(users, now, p.email, p.password, Undef)
           IN /\ users' = r.users
              /\ last' = [op |-> "register", email |-> p.email, password |-> p.password,
                          res |-> r.res]
        /\ pending' = Without(pending, i)
        /\ UNCHANGED <<loginAttempts, now, streak, dbVehicles, inquiries, vehicles, query>>

NextRace ==
    LoginArrive \/ LoginResume \/ RegisterArrive \/ RegisterResume \/ Minute

SpecRace == Init /\ [][NextRace]_vars


\* C27: with several logins for one existing email in flight at once, the
\* guard still admits at most 5 failed password comparisons before it locks:
\* the failure count of an email never exceeds 5.
C27_CountAtMostFive ==
    \A key \in DOMAIN loginAttempts : loginAttempts[key].count <= MAX_LOGIN_ATTEMPTS

\* a sixth failed comparison for the email was recorded, all six within the
\* same instant
C27_Witness ==
    /\ last.op = "login"
    /\ last.res.status = 401
    /\ last.compared
    /\ loginAttempts[last.key].count = MAX_LOGIN_ATTEMPTS + 1
    /\ now = 0

\* C28: when a registration resumes after hashing and a user with its email
\* (in any casing) has been stored meanwhile, it is answered 409 and stores
\* nothing; no two stored users share an email.
C28_RaceAnswersConflict ==
    [][ /\ NoTwoUsersShareEmail(users')
        /\ (/\ last'.op = "register"
            /\ Len(pending') < Len(pending)
            /\ HoldsEmail(users, last'.email.s))
           => (last'.res.status = 409 /\ users' = users) ]_vars

\* of two registrations in flight for one email in two casings, the second to
\* finish was answered 500, and one user is stored
C28_Witness ==
    /\ last.op = "register"
    /\ last.res.status = 500
    /\ last.email = Str(EmailAUp)
    /\ Len(users) = 1
    /\ users[1].email = EmailA
    /\ pending = <<>>


-----------------------------------------------------------------------------
(* Admin-only inquiry operations while the users change *)

RoleHeaders ==
    { Header(<<"Bearer", "tokAdmin">>), Header(<<"Bearer", "tokAdminZero">>),
      Header(<<"Bearer", "tokUser">>) }

RolePut ==
    /\ \E header \in RoleHeaders : \E id \in InquiryIds :
       \E status \in {Word("bogus"), Word("closed")} :
         LET r == inquiriesPut(inquiries, header, id, status, now)
         IN /\ inquiries' = r.rows
            /\ last' = [op |-> "inquiries.put", header |-> header, id |-> id,
                        status |-> status, res |-> r.res]
    /\ UNCHANGED <<users, loginAttempts, now, streak, dbVehicles, vehicles, query, pending>>

RoleDelete ==
    /\ \E header \in RoleHeaders : \E id \in InquiryIds :
         LET r == inquiriesDelete(inquiries, header, id, now)
         IN /\ inquiries' = r.rows
            /\ last' = [op |-> "inquiries.delete", header |-> header, id |-> id,
                        res |-> r.res]
    /\ UNCHANGED <<users, loginAttempts, now, streak, dbVehicles, vehicles, query, pending>>

\* users come to be stored under the emails the tokens name, with role user
RoleRegister == RegisterWith({Str(EmailA), Str(EmailX)}, {Str(PwGood)})

NextRoles ==
    AddVehicleBMW \/ StoreInquiry \/ RolePut \/ RoleDelete \/ RoleRegister \/ Minute

SpecRoles == Init /\ [][NextRoles]_vars

\* the status the token, the request and the inquiries alone call for
StatusByTokenAlone(h, op, id, st, inqs) ==
    IF SuppliesNoToken(h) THEN 401
    ELSE IF ~ByAdmin(h) THEN 403
    ELSE IF op = "inquiries.put" /\ BadStatus(st) THEN 400
    ELSE IF getInquiryById(inqs, id) = NoInquiry THEN 404
    ELSE 200

\* C30: whether an admin-only inquiry operation is granted, and how it is
\* answered, follows from the verified token's role, the request and the
\* inquiries alone: whatever users are stored (the token's user absent, or
\* stored with role user), a token that verifies with role admin is granted
\* the update and the delete, and the outcome never differs between two
\* states that differ only in the users.
C30_RoleFromTokenOnly ==
    [][ last'.op \in {"inquiries.put", "inquiries.delete"} =>
          /\ last'.res.status =
                StatusByTokenAlone(last'.header, last'.op, last'.id,
                                   IF last'.op = "inquiries.put" THEN last'.status
                                   ELSE NoWord, inquiries)
          /\ ByAdmin(last'.header) => last'.res.status \notin {401, 403}
          /\ users' = users ]_vars

\* a token with role admin and userId 0 was granted a status update while the
\* stored user with id 0 has role user
C30_Witness ==
    /\ last.op = "inquiries.put"
    /\ last.header = Header(<<"Bearer", "tokAdminZero">>)
    /\ last.res.status = 200
    /\ findUserByIdIn(users, 0).role = "user"
    /\ getInquiryById(inquiries, last.id).status = "closed"

====
